---- MODULE Spec2Model ----
\* A model of focus-breaker's AlertStore (pkg/store, shipped in
\* src/pkg/models/alert.go): the events map, the alertsById index, the
\* alertsByTime minute buckets and every public operation on them.
\*
\* Time is counted in seconds; the wall clock `now` only moves forward and
\* visits a finite set of instants: T0, a minute later and 12 hours later.
\* Alerts are Go heap objects (*ScheduledAlert): `alerts` maps a reference to
\* the object's fields, and both indices hold references, so that an object
\* can be in one index and not in the other.
EXTENDS Integers, Sequences, FiniteSets, TLC

VARIABLES
    now,            \* time.Now(), seconds
    events,         \* as.events: event id -> Event
    alerts,         \* heap of ScheduledAlert objects: reference -> fields
    alertsById,     \* as.alertsById: generated alert id -> reference
    alertsByTime,   \* as.alertsByTime: minute key -> sequence of references
    result,         \* the references returned by the latest query
    lastOp,         \* the operation that produced this state
    calls,          \* the number of mutating store calls made so far
    mu,             \* as.mu: the goroutine holding the write lock, the readers
    pc,             \* where each goroutine is in the store call it is making
    hold,           \* the alert window: its hold buttons, progress and tickers
    driver,         \* the alert-check driver: its configuration and its timers
    windows         \* the alert windows opened so far

\* the alert window and the alert-check driver, in front of the store
front == <<hold, driver, windows>>

vars == <<now, events, alerts, alertsById, alertsByTime, result, lastOp, calls,
          mu, pc, hold, driver, windows>>

-----------------------------------------------------------------------------
\* Bounds of the model

MaxAlerts == 3      \* live ScheduledAlert objects
MaxBatch == 2       \* events in one sync batch
HoldTicks == 2      \* 50 ms ticks in the configured hold time
MaxPresses == 3     \* presses of a hold button on one alert window
MaxCalls == 3       \* mutating store calls in one run

-----------------------------------------------------------------------------
\* Program constants

Minute == 60
Hour == 60 * Minute
RetentionHours == 12
MinutesPerDay == 24 * 60

AlertStatusPending == "Pending"
AlertStatusAlerted == "Alerted"
AlertStatusSnoozed == "Snoozed"
AlertStatusMuted == "Muted"
AlertStatuses ==
    {AlertStatusPending, AlertStatusAlerted, AlertStatusSnoozed, AlertStatusMuted}

NeedsAction == "NEEDS-ACTION"
Confirmed == "CONFIRMED"

\* a nil *time.Time
NilTime == 0 - 1

-----------------------------------------------------------------------------
\* Inputs

T0 == 24 * Hour                         \* 00:00 of the second day
HalfMinute == Minute \div 2

\* T0, the minute after it, and an instant at which the retention cutoff
\* is T0 + 1min30s
ClockPoints ==
    {T0, T0 + Minute, T0 + RetentionHours * Hour + Minute + HalfMinute}

EventIDs == {"a", "a-"}

Event(id, variant, start) ==
    [ID |-> id,
     Title |-> "title" \o variant,
     Description |-> "description" \o variant,
     StartTime |-> start,
     EndTime |-> start + 5 * Minute,
     MeetingLink |-> "link" \o variant,
     Status |-> IF variant = "1" THEN Confirmed ELSE NeedsAction,
     SourceID |-> "source" \o variant]

\* "a" moves by a minute, with other details and not yet accepted
EventPool ==
    {Event("a", "1", T0 + Minute), Event("a", "2", T0 + 2 * Minute),
     Event("a-", "1", T0 + Minute)}

\* GetAlertMinutes always yields 0 first, then the distinct positive minutes
AlertMinutesPool == {<<0>>, <<0, 1>>}

TimeRange(sh, sm, eh, em) ==
    [StartHour |-> sh, StartMinute |-> sm, EndHour |-> eh, EndMinute |-> em]

Config(ranges) == [isNil |-> FALSE, QuietTimeRanges |-> ranges]
NilConfig == [isNil |-> TRUE, QuietTimeRanges |-> <<>>]

\* no quiet time, and quiet from 00:01 to 00:02
ConfigPool == {Config(<<>>), Config(<<TimeRange(0, 1, 0, 2)>>)}

\* the settings a sync runs with: the default ones, one alert offset more,
\* or a quiet time
SyncSettings ==
    {st \in AlertMinutesPool \X ConfigPool :
        Len(st[1]) = 1 \/ st[2].QuietTimeRanges = <<>>}

SnoozeDurations == {HalfMinute, Minute}

-----------------------------------------------------------------------------
\* Maps

Get(f, k) == IF k \in DOMAIN f THEN f[k] ELSE <<>>
Put(f, k, v) == [x \in DOMAIN f \cup {k} |-> IF x = k THEN v ELSE f[x]]
Del(f, k) == [x \in DOMAIN f \ {k} |-> f[x]]
EmptyMap == [x \in {} |-> 0]

SeqToSet(q) == {q[i] : i \in 1..Len(q)}
RemoveAt(q, i) == SubSeq(q, 1, i - 1) \o SubSeq(q, i + 1, Len(q))

\* the elements of a finite set of strings or numbers, in some fixed order
RECURSIVE SetToSeq(_)
SetToSeq(S) ==
    IF S = {} THEN <<>>
    ELSE LET x == CHOOSE y \in S : TRUE IN <<x>> \o SetToSeq(S \ {x})

-----------------------------------------------------------------------------
\* models.RoundToMinute: t.Truncate(time.Minute)
RoundToMinute(t) == t - (t % Minute)

\* fmt's %d
Digit(d) ==
    CASE d = 0 -> "0" [] d = 1 -> "1" [] d = 2 -> "2" [] d = 3 -> "3"
      [] d = 4 -> "4" [] d = 5 -> "5" [] d = 6 -> "6" [] d = 7 -> "7"
      [] d = 8 -> "8" [] d = 9 -> "9"

RECURSIVE Itoa(_)
Itoa(n) == IF n < 10 THEN Digit(n) ELSE Itoa(n \div 10) \o Digit(n % 10)

FormatInt(n) == IF n < 0 THEN "-" \o Itoa(0 - n) ELSE Itoa(n)

\* generateAlertID: fmt.Sprintf("%s-%d", eventID, alertOffset)
generateAlertID(eventID, alertOffset) == eventID \o "-" \o FormatInt(alertOffset)

\* the key under which an alert object would be stored
AlertKey(s, ref) == generateAlertID(s.alerts[ref].EventID, s.alerts[ref].AlertOffset)

\* Config.IsTimeInQuietTime
InRangeToEnd(tr, currentMinutes) ==
    LET startMinutes == tr.StartHour * 60 + tr.StartMinute
        endMinutes == tr.EndHour * 60 + tr.EndMinute
    IN  IF endMinutes < startMinutes
        THEN currentMinutes >= startMinutes \/ currentMinutes <= endMinutes
        ELSE currentMinutes >= startMinutes /\ currentMinutes <= endMinutes

InRange(tr, currentMinutes) ==
    LET startMinutes == tr.StartHour * 60 + tr.StartMinute
        endMinutes == tr.EndHour * 60 + tr.EndMinute
    IN  IF endMinutes < startMinutes
        THEN currentMinutes >= startMinutes \/ currentMinutes < endMinutes
        ELSE currentMinutes >= startMinutes /\ currentMinutes < endMinutes

IsTimeInQuietTime(c, t) ==
    LET currentMinutes == (t \div Minute) % MinutesPerDay
    IN  \E i \in 1..Len(c.QuietTimeRanges) : InRange(c.QuietTimeRanges[i], currentMinutes)

-----------------------------------------------------------------------------
\* The store as a value, threaded through the helpers

Store == [events |-> events, alerts |-> alerts,
          alertsById |-> alertsById, alertsByTime |-> alertsByTime]

\* a fresh heap object: the smallest reference not in use
NewRef(s) == CHOOSE n \in 1..(Cardinality(DOMAIN s.alerts) + 1) : n \notin DOMAIN s.alerts

Referenced(s) ==
    {s.alertsById[k] : k \in DOMAIN s.alertsById}
        \cup UNION {SeqToSet(s.alertsByTime[k]) : k \in DOMAIN s.alertsByTime}

\* objects that neither index references are garbage
Collect(s) == [s EXCEPT !.alerts = [r \in Referenced(s) |-> s.alerts[r]]]

\* as.alertsByTime[timeKey] = append(as.alertsByTime[timeKey], alert)
AppendToTimeIndex(s, timeKey, ref) ==
    [s EXCEPT !.alertsByTime = Put(@, timeKey, Append(Get(@, timeKey), ref))]

\* removeAlertFromTimeIndex
removeAlertFromTimeIndex(s, timeKey, alertID) ==
    LET bucket == Get(s.alertsByTime, timeKey)
        hits == {i \in 1..Len(bucket) : AlertKey(s, bucket[i]) = alertID}
        first == CHOOSE i \in hits : \A j \in hits : i <= j
        after == IF hits = {} THEN bucket ELSE RemoveAt(bucket, first)
    IN  IF Len(after) = 0
        THEN [s EXCEPT !.alertsByTime = Del(@, timeKey)]
        ELSE [s EXCEPT !.alertsByTime = Put(@, timeKey, after)]

-----------------------------------------------------------------------------
\* the test that skips the creation of an alert: its fire time is before
\* the current time
isBeforeNowNever(alertTime) == FALSE

isBeforeNow(alertTime) == alertTime < now

\* createAlertsForEventWithConfig: the alerts of a new event, one per
\* configured minute value whose fire time is not in the past
RECURSIVE createAlertsFrom(_, _, _, _, _, _)
createAlertsFrom(s, eventID, event, alertMinutes, config, i) ==
    IF i > Len(alertMinutes) THEN s
    ELSE
        LET minutes == alertMinutes[i]
            alertTime == event.StartTime - minutes * Minute
            status == IF ~config.isNil /\ IsTimeInQuietTime(config, alertTime)
                      THEN AlertStatusMuted ELSE AlertStatusPending
            ref == NewRef(s)
            alert == [EventID |-> eventID, Status |-> status,
                      AlertTime |-> alertTime, AlertOffset |-> 0 - minutes]
            alertID == generateAlertID(eventID, 0 - minutes)
            s1 == [s EXCEPT !.alerts = Put(@, ref, alert),
                            !.alertsById = Put(@, alertID, ref)]
            s2 == AppendToTimeIndex(s1, RoundToMinute(alertTime), ref)
        IN  IF isBeforeNow(alertTime)
            THEN createAlertsFrom(s, eventID, event, alertMinutes, config, i + 1)
            ELSE createAlertsFrom(s2, eventID, event, alertMinutes, config, i + 1)

\* createAlertsForEventWithConfig with a slip: the configuration is not
\* passed on, as in UpdateEvents
createAlertsForEventWithoutConfig(s, eventID, event, alertMinutes, config) ==
    createAlertsFrom(s, eventID, event, alertMinutes, NilConfig, 1)

createAlertsForEventWithConfig(s, eventID, event, alertMinutes, config) ==
    createAlertsFrom(s, eventID, event, alertMinutes, config, 1)

\* relocateAlert with a slip: the moved alert is scheduled anew
relocateAlertAsPending(s, alertID, alertTime) ==
    LET old == s.alertsById[alertID]
        oldTimeKey == RoundToMinute(s.alerts[old].AlertTime)
        m1 == removeAlertFromTimeIndex(s, oldTimeKey, alertID)
        m2 == [m1 EXCEPT !.alerts[old].AlertTime = alertTime,
                         !.alerts[old].Status = AlertStatusPending]
    IN  AppendToTimeIndex(m2, RoundToMinute(alertTime), old)

\* updateAlertsForEvent, the branch for an alert that exists: out of the slot
\* of its old time, new time, into the slot of the new time; Status is kept
relocateAlert(s, alertID, alertTime) ==
    LET old == s.alertsById[alertID]
        oldTimeKey == RoundToMinute(s.alerts[old].AlertTime)
        m1 == removeAlertFromTimeIndex(s, oldTimeKey, alertID)
        m2 == [m1 EXCEPT !.alerts[old].AlertTime = alertTime]
    IN  AppendToTimeIndex(m2, RoundToMinute(alertTime), old)

\* updateAlertsForEvent, first loop: relocate the existing alert of each
\* configured minute value, or create the missing one
RECURSIVE updateAlertsFrom(_, _, _, _, _)
updateAlertsFrom(s, eventID, event, alertMinutes, i) ==
    IF i > Len(alertMinutes) THEN s
    ELSE
        LET minutes == alertMinutes[i]
            alertID == generateAlertID(eventID, 0 - minutes)
            alertTime == event.StartTime - minutes * Minute
            m3 == relocateAlert(s, alertID, alertTime)
            \* the alert does not exist: created as Pending
            ref == NewRef(s)
            newAlert == [EventID |-> eventID, Status |-> AlertStatusPending,
                         AlertTime |-> alertTime, AlertOffset |-> 0 - minutes]
            c1 == [s EXCEPT !.alerts = Put(@, ref, newAlert),
                            !.alertsById = Put(@, alertID, ref)]
            c2 == AppendToTimeIndex(c1, RoundToMinute(alertTime), ref)
        IN  IF alertID \in DOMAIN s.alertsById
            THEN updateAlertsFrom(m3, eventID, event, alertMinutes, i + 1)
            ELSE IF isBeforeNow(alertTime)
            THEN updateAlertsFrom(s, eventID, event, alertMinutes, i + 1)
            ELSE updateAlertsFrom(c2, eventID, event, alertMinutes, i + 1)

\* updateAlertsForEvent, second loop: drop the negative-offset alerts of
\* the event whose minute value is no longer configured
RECURSIVE removeUnconfigured(_, _, _, _)
removeUnconfigured(s, eventID, alertMinutes, ids) ==
    IF ids = <<>> THEN s
    ELSE
        LET alertID == Head(ids)
            alert == s.alerts[s.alertsById[alertID]]
            timeKey == RoundToMinute(alert.AlertTime)
            r1 == removeAlertFromTimeIndex(s, timeKey, alertID)
            r2 == [r1 EXCEPT !.alertsById = Del(@, alertID)]
        IN  IF /\ alert.EventID = eventID
               /\ alert.AlertOffset < 0
               /\ (0 - alert.AlertOffset) \notin SeqToSet(alertMinutes)
            THEN removeUnconfigured(r2, eventID, alertMinutes, Tail(ids))
            ELSE removeUnconfigured(s, eventID, alertMinutes, Tail(ids))

updateAlertsForEvent(s, eventID, event, alertMinutes) ==
    LET u == updateAlertsFrom(s, eventID, event, alertMinutes, 1)
    IN  removeUnconfigured(u, eventID, alertMinutes, SetToSeq(DOMAIN u.alertsById))

\* removeEvent: the event and every alert that alertsById holds for it
RECURSIVE removeAlertsOf(_, _, _)
removeAlertsOf(s, eventID, ids) ==
    IF ids = <<>> THEN s
    ELSE
        LET alertID == Head(ids)
            alert == s.alerts[s.alertsById[alertID]]
            timeKey == RoundToMinute(alert.AlertTime)
            r1 == removeAlertFromTimeIndex(s, timeKey, alertID)
            r2 == [r1 EXCEPT !.alertsById = Del(@, alertID)]
        IN  IF alert.EventID = eventID
            THEN removeAlertsOf(r2, eventID, Tail(ids))
            ELSE removeAlertsOf(s, eventID, Tail(ids))

removeEvent(s, eventID) ==
    LET d == [s EXCEPT !.events = [e \in DOMAIN s.events \ {eventID} |-> s.events[e]]]
    IN  removeAlertsOf(d, eventID, SetToSeq(DOMAIN d.alertsById))

\* cleanupOldAlerts: the buckets below the cutoff minute with the alertsById
\* entries their alerts generate, then the events that start before the cutoff
cleanupOldAlerts(s, cutoffTime) ==
    LET cutoffKey == RoundToMinute(cutoffTime)
        oldKeys == {k \in DOMAIN s.alertsByTime : k < cutoffKey}
        dropped == UNION {{AlertKey(s, s.alertsByTime[k][i]) : i \in 1..Len(s.alertsByTime[k])} :
                              k \in oldKeys}
    IN  [s EXCEPT
            !.alertsById = [id \in DOMAIN s.alertsById \ dropped |-> s.alertsById[id]],
            !.alertsByTime = [k \in DOMAIN s.alertsByTime \ oldKeys |-> s.alertsByTime[k]],
            !.events = [e \in {x \in DOMAIN s.events : ~(s.events[x].StartTime < cutoffTime)}
                            |-> s.events[e]]]

-----------------------------------------------------------------------------
\* UpdateEventsWithConfig, the test that skips an incoming event: its start
\* is before the cutoff
isPastEventNever(event, cutoffTime) == FALSE

isPastEvent(event, cutoffTime) == event.StartTime < cutoffTime

\* UpdateEventsWithConfig, the refresh of a known event: title, description,
\* times, link and status are those of the incoming event, ID and SourceID
\* stay
replaceEvent(existingEvent, event) == event

refreshEvent(existingEvent, event) ==
    [existingEvent EXCEPT !.Title = event.Title,
                          !.Description = event.Description,
                          !.StartTime = event.StartTime,
                          !.EndTime = event.EndTime,
                          !.MeetingLink = event.MeetingLink,
                          !.Status = event.Status]

\* UpdateEventsWithConfig, the loop over newEvents: st.s is the store and
\* st.seen the seenEventIDs so far; the loop variable is a new one in each
\* iteration (the build image is golang:1.25), so that the event stored for
\* a new id is the event of that iteration
RECURSIVE syncFrom(_, _, _, _, _, _)
syncFrom(st, newEvents, alertMinutes, config, cutoffTime, i) ==
    IF i > Len(newEvents) THEN st
    ELSE
        LET event == newEvents[i]
            eventID == event.ID
            s == st.s
            existingEvent == s.events[eventID]
            refreshed == refreshEvent(existingEvent, event)
            known == updateAlertsForEvent(
                        [s EXCEPT !.events = Put(@, eventID, refreshed)],
                        eventID, event, alertMinutes)
            fresh == createAlertsForEventWithConfig(
                        [s EXCEPT !.events = Put(@, eventID, event)],
                        eventID, event, alertMinutes, config)
            next == [s |-> IF eventID \in DOMAIN s.events THEN known ELSE fresh,
                     seen |-> st.seen \cup {eventID}]
        IN  IF isPastEvent(event, cutoffTime)
            THEN syncFrom(st, newEvents, alertMinutes, config, cutoffTime, i + 1)
            ELSE syncFrom(next, newEvents, alertMinutes, config, cutoffTime, i + 1)

\* UpdateEventsWithConfig, the loop that removes the events that are gone
RECURSIVE removeGone(_, _, _, _)
removeGone(s, seen, cutoffTime, ids) ==
    IF ids = <<>> THEN s
    ELSE
        LET eventID == Head(ids)
            event == s.events[eventID]
        IN  IF /\ eventID \notin seen
               /\ event.StartTime < now
               /\ event.StartTime < cutoffTime
            THEN removeGone(removeEvent(s, eventID), seen, cutoffTime, Tail(ids))
            ELSE removeGone(s, seen, cutoffTime, Tail(ids))

UpdateEventsWithConfig(s, newEvents, alertMinutes, config) ==
    LET cutoffTime == now - RetentionHours * Hour
        synced == syncFrom([s |-> s, seen |-> {}], newEvents, alertMinutes,
                           config, cutoffTime, 1)
        kept == removeGone(synced.s, synced.seen, cutoffTime,
                           SetToSeq(DOMAIN synced.s.events))
    IN  cleanupOldAlerts(kept, cutoffTime)

\* MarkAlertStatus, the test for the snooze branch: Snoozed, with a time to
\* snooze until
isSnoozeWithoutUntil(status, snoozedUntil) == status = AlertStatusSnoozed

isSnooze(status, snoozedUntil) ==
    status = AlertStatusSnoozed /\ snoozedUntil # NilTime

\* MarkAlertStatus
MarkAlertStatus(s, eventID, alertOffset, status, snoozedUntil) ==
    LET alertID == generateAlertID(eventID, alertOffset)
        alert == s.alertsById[alertID]
        \* int(snoozedUntil.Sub(time.Now()).Minutes()): truncation toward zero
        delta == snoozedUntil - now
        truncated == IF delta >= 0 THEN delta \div Minute
                     ELSE 0 - ((0 - delta) \div Minute)
        snoozeMinutes == IF truncated < 0 THEN 0 ELSE truncated
        ref == NewRef(s)
        newAlert == [EventID |-> s.alerts[alert].EventID,
                     Status |-> AlertStatusPending,
                     AlertTime |-> snoozedUntil,
                     AlertOffset |-> snoozeMinutes]
        newAlertID == generateAlertID(eventID, snoozeMinutes)
        z1 == [s EXCEPT !.alerts[alert].Status = AlertStatusSnoozed]
        z2 == [z1 EXCEPT !.alerts = Put(@, ref, newAlert),
                         !.alertsById = Put(@, newAlertID, ref)]
        z3 == AppendToTimeIndex(z2, RoundToMinute(snoozedUntil), ref)
    IN  IF alertID \notin DOMAIN s.alertsById THEN s
        ELSE IF isSnooze(status, snoozedUntil) THEN z3
        ELSE [s EXCEPT !.alerts[alert].Status = status]

\* AddManualAlert
AddManualAlert(s, event, alertTime) ==
    LET ref == NewRef(s)
        alert == [EventID |-> event.ID, Status |-> AlertStatusPending,
                  AlertTime |-> alertTime, AlertOffset |-> 0]
        alertID == generateAlertID(event.ID, 0)
        a1 == [s EXCEPT !.events = Put(@, event.ID, event),
                        !.alerts = Put(@, ref, alert),
                        !.alertsById = Put(@, alertID, ref)]
    IN  AppendToTimeIndex(a1, RoundToMinute(alertTime), ref)

\* GetEvent: the event of the id, or nil
NilEvent == [ID |-> "", isNil |-> TRUE]

GetEvent(s, eventID) ==
    IF eventID \in DOMAIN s.events THEN s.events[eventID] ELSE NilEvent

\* UpdateMutedStatusForQuietTime
UpdateMutedStatusForQuietTime(s, config) ==
    LET held == {s.alertsById[id] : id \in DOMAIN s.alertsById}
        status(r) ==
            LET alert == s.alerts[r]
                isInQuietTime == IsTimeInQuietTime(config, alert.AlertTime)
            IN  IF r \notin held THEN alert.Status
                ELSE IF alert.Status # AlertStatusPending /\ alert.Status # AlertStatusMuted
                THEN alert.Status
                ELSE IF isInQuietTime /\ alert.Status = AlertStatusPending
                THEN AlertStatusMuted
                ELSE IF ~isInQuietTime /\ alert.Status = AlertStatusMuted
                THEN AlertStatusPending
                ELSE alert.Status
    IN  [s EXCEPT !.alerts = [r \in DOMAIN s.alerts |->
                                [s.alerts[r] EXCEPT !.Status = status(r)]]]

\* isScheduled with a slip: the alert at the cutoff itself is included
isScheduledFromCutoff(s, clock, ref) ==
    s.alerts[ref].AlertTime >= clock - RetentionHours * Hour

\* alert.AlertTime.After(now.Add(-12 * time.Hour))
isScheduled(s, clock, ref) ==
    s.alerts[ref].AlertTime > clock - RetentionHours * Hour

\* the loop over alertsById, in the order `order` of its keys
RECURSIVE scheduledFrom(_, _, _, _)
scheduledFrom(s, clock, order, i) ==
    IF i > Len(order) THEN <<>>
    ELSE
        LET alert == s.alertsById[order[i]]
            rest == scheduledFrom(s, clock, order, i + 1)
        IN  IF isScheduled(s, clock, alert) THEN <<alert>> \o rest ELSE rest

\* sort.Slice by AlertTime.Before: an alert goes before the first one that
\* fires later
insertByAlertTime(s, q, ref) ==
    LET later == {i \in 1..Len(q) : s.alerts[ref].AlertTime < s.alerts[q[i]].AlertTime}
        at == IF later = {} THEN Len(q) + 1
              ELSE CHOOSE i \in later : \A j \in later : i <= j
    IN  SubSeq(q, 1, at - 1) \o <<ref>> \o SubSeq(q, at, Len(q))

RECURSIVE sortByAlertTime(_, _)
sortByAlertTime(s, q) ==
    IF q = <<>> THEN <<>>
    ELSE insertByAlertTime(s, sortByAlertTime(s, SubSeq(q, 1, Len(q) - 1)), q[Len(q)])

\* GetAllScheduledAlerts, with the value that its time.Now() reads and the
\* order in which the range over the map yields the keys
GetAllScheduledAlerts(s, clock, order) ==
    sortByAlertTime(s, scheduledFrom(s, clock, order, 1))

\* the orders in which a range over a map with the keys S can yield them
RECURSIVE MapOrders(_)
MapOrders(S) ==
    IF S = {} THEN {<<>>}
    ELSE UNION {{<<x>> \o q : q \in MapOrders(S \ {x})} : x \in S}

\* isReturned with a slip: every alert that is not Alerted is returned
isReturnedUnlessAlerted(s, ref, notifyUnaccepted) ==
    LET alert == s.alerts[ref]
        unaccepted == /\ ~notifyUnaccepted
                      /\ alert.EventID \in DOMAIN s.events
                      /\ s.events[alert.EventID].Status = NeedsAction
    IN  /\ ~unaccepted
        /\ alert.Status # AlertStatusAlerted

\* GetAlertsForCurrentMinute, the body of its loop: whether an alert of the
\* slot goes into the result
isReturned(s, ref, notifyUnaccepted) ==
    LET alert == s.alerts[ref]
        unaccepted == /\ ~notifyUnaccepted
                      /\ alert.EventID \in DOMAIN s.events
                      /\ s.events[alert.EventID].Status = NeedsAction
    IN  /\ ~unaccepted
        /\ \/ alert.Status = AlertStatusPending
           \/ alert.Status = AlertStatusSnoozed

RECURSIVE dueFrom(_, _, _, _)
dueFrom(s, bucket, notifyUnaccepted, i) ==
    IF i > Len(bucket) THEN <<>>
    ELSE IF isReturned(s, bucket[i], notifyUnaccepted)
    THEN <<bucket[i]>> \o dueFrom(s, bucket, notifyUnaccepted, i + 1)
    ELSE dueFrom(s, bucket, notifyUnaccepted, i + 1)

\* GetAlertsForCurrentMinute, with the value that its time.Now() reads
GetAlertsForCurrentMinute(s, clock, notifyUnaccepted) ==
    dueFrom(s, Get(s.alertsByTime, RoundToMinute(clock)), notifyUnaccepted, 1)

-----------------------------------------------------------------------------
\* The inputs of the operations

\* a batch is de-duplicated by id and lists its events source by source
IDOrder(id) == IF id = "a" THEN 1 ELSE 2

Batches ==
    {q \in UNION {[1..n -> EventPool] : n \in 0..MaxBatch} :
        \A i, j \in 1..Len(q) : i < j => IDOrder(q[i].ID) < IDOrder(q[j].ID)}

\* what the alert window's callbacks pass: dismissed, or snoozed
MarkedStatuses == {AlertStatusAlerted, AlertStatusSnoozed}
\* the keys a caller holds: those of the alerts that a query has returned
\* or can return, and one that is not in the store
MarkTargets ==
    {<<alerts[r].EventID, alerts[r].AlertOffset>> : r \in DOMAIN alerts}
        \cup {<<"a", 2>>}

\* the store after an operation, garbage dropped, within the heap bound
Becomes(s) ==
    LET c == Collect(s)
    IN  /\ calls < MaxCalls
        /\ calls' = calls + 1
        /\ Cardinality(DOMAIN c.alerts) <= MaxAlerts
        /\ events' = c.events
        /\ alerts' = c.alerts
        /\ alertsById' = c.alertsById
        /\ alertsByTime' = c.alertsByTime

-----------------------------------------------------------------------------
\* The goroutines that call into the store: the sync ticker, the alert
\* ticker and the UI (the callbacks of the windows and dialogs)
Goroutines == {"sync", "alert", "ui"}

\* sync.RWMutex: no writer, no readers
Unlocked == [writer |-> "none", readers |-> {}]

\* a goroutine that is in no store call
Idle == [at |-> "idle"]

\* the hold buttons of the alert window
Buttons == {"close", "snooze"}

\* NewAlertWindow: nothing pressed, no progress, no ticker yet (nil is 0);
\* `tickers` are the time.Ticker objects made so far, each with the goroutine
\* that ranges over its channel, and `invoked` the callbacks called
NewAlertWindow ==
    [hovered |-> [b \in Buttons |-> FALSE],
     holding |-> [b \in Buttons |-> FALSE],
     held |-> [b \in Buttons |-> FALSE],
     progress |-> [b \in Buttons |-> 0],
     ticker |-> [b \in Buttons |-> 0],
     tickers |-> <<>>,
     invoked |-> <<>>]

\* the alert checker of an app started 4 seconds before T0, with an iCal
\* source configured: the one-off check is due at T0 + 1s, the first tick of
\* the one-minute ticker at T0 + 56s
StartTime == T0 - 4

NewDriver ==
    [configured |-> TRUE, syncs |-> 0,
     oneOff |-> StartTime + 5, tick |-> StartTime + Minute]

Init ==
    /\ now = T0
    /\ events = EmptyMap
    /\ alerts = EmptyMap
    /\ alertsById = EmptyMap
    /\ alertsByTime = EmptyMap
    /\ result = <<>>
    /\ lastOp = "NewAlertStore"
    /\ calls = 0
    /\ mu = Unlocked
    /\ pc = [t \in Goroutines |-> Idle]
    /\ hold = NewAlertWindow
    /\ driver = NewDriver
    /\ windows = <<>>

\* the wall clock moves forward
Tick ==
    /\ \E t \in ClockPoints : t > now /\ now' = t
    /\ result' = <<>>
    /\ lastOp' = "Tick"
    /\ UNCHANGED <<front, events, alerts, alertsById, alertsByTime, calls, mu, pc>>

\* a calendar sync: syncEvents calls UpdateEventsWithConfig
ReconcileSync ==
    \E newEvents \in Batches, settings \in SyncSettings :
        /\ Becomes(UpdateEventsWithConfig(Store, newEvents, settings[1], settings[2]))
        /\ result' = <<>>
        /\ lastOp' = "UpdateEventsWithConfig"
        /\ UNCHANGED <<front, now, mu, pc>>

\* the alert window's callbacks call MarkAlertStatus: Alerted with nil on
\* close, Snoozed with the time to snooze until
MarkStatus ==
    \E target \in MarkTargets, status \in MarkedStatuses,
       snoozedUntil \in {NilTime} \cup {now + d : d \in SnoozeDurations} :
      LET eventID == target[1]
          alertOffset == target[2]
      IN
        /\ snoozedUntil # NilTime <=> status = AlertStatusSnoozed
        /\ Becomes(MarkAlertStatus(Store, eventID, alertOffset, status, snoozedUntil))
        /\ result' = <<>>
        /\ lastOp' = "MarkAlertStatus"
        /\ UNCHANGED <<front, now, mu, pc>>

\* the settings window's Add Alarm dialog calls AddManualAlert
ManualAlert ==
    \E id \in {"a"} :
        LET alertTime == now + Minute
            event == Event(id, "1", alertTime)
        IN  /\ Becomes(AddManualAlert(Store, event, alertTime))
            /\ result' = <<>>
            /\ lastOp' = "AddManualAlert"
            /\ UNCHANGED <<front, now, mu, pc>>

\* RemoveEvent
RemoveEvent ==
    \E eventID \in EventIDs :
        /\ Becomes(removeEvent(Store, eventID))
        /\ result' = <<>>
        /\ lastOp' = "RemoveEvent"
        /\ UNCHANGED <<front, now, mu, pc>>

\* saving the settings calls UpdateMutedStatusForQuietTime
QuietTimeChange ==
    \E config \in ConfigPool :
        /\ Becomes(UpdateMutedStatusForQuietTime(Store, config))
        /\ result' = <<>>
        /\ lastOp' = "UpdateMutedStatusForQuietTime"
        /\ UNCHANGED <<front, now, mu, pc>>

\* checkAlerts calls GetAlertsForCurrentMinute
DueNow ==
    \E notifyUnaccepted \in BOOLEAN :
        /\ result' = GetAlertsForCurrentMinute(Store, now, notifyUnaccepted)
        /\ lastOp' = "GetAlertsForCurrentMinute"
        /\ UNCHANGED <<front, now, events, alerts, alertsById, alertsByTime, calls, mu, pc>>

Next ==
    \/ Tick
    \/ ReconcileSync
    \/ MarkStatus
    \/ ManualAlert
    \/ RemoveEvent
    \/ QuietTimeChange
    \/ DueNow

Spec == Init /\ [][Next]_vars

\* the store driven by the calendar sync, the alert window and the alert
\* check only: reconciliation (with its eviction), status marks and queries
NextSync ==
    \/ Tick
    \/ ReconcileSync
    \/ MarkStatus
    \/ DueNow

SpecSync == Init /\ [][NextSync]_vars

-----------------------------------------------------------------------------
\* What the properties speak about

\* the places <<minute key, position>> of the time index
Slots ==
    UNION {{<<k, i>> : i \in 1..Len(alertsByTime[k])} : k \in DOMAIN alertsByTime}

SlotsOf(ref) == {sl \in Slots : alertsByTime[sl[1]][sl[2]] = ref}

\* the alerts that the by-id index references
Indexed == {alertsById[id] : id \in DOMAIN alertsById}

\* C1 (I1, index consistency): after every reconcile (with its eviction) and
\* every status mark, each alert that alertsById references is in exactly one
\* slot of alertsByTime, under the minute of its fire time, and each alert in
\* a slot is the one alertsById holds under its (event id, offset) key.
C1_IndexConsistency ==
    /\ \A ref \in Indexed :
        /\ Cardinality(SlotsOf(ref)) = 1
        /\ \A sl \in SlotsOf(ref) : sl[1] = RoundToMinute(alerts[ref].AlertTime)
    /\ \A sl \in Slots :
        LET ref == alertsByTime[sl[1]][sl[2]]
            id == AlertKey(Store, ref)
        IN  id \in DOMAIN alertsById /\ alertsById[id] = ref

\* C2 (I2, no orphans): after every store operation, the event id of every
\* alert in either index is a key of events.
C2_NoOrphanAlerts ==
    \A ref \in DOMAIN alerts : alerts[ref].EventID \in DOMAIN events

\* C3 (pre-event key uniqueness): for an event id and an offset that is
\* negative or zero, the store holds at most one alert.
C3_PreEventKeyUnique ==
    \A r1, r2 \in DOMAIN alerts :
        (/\ alerts[r1].EventID = alerts[r2].EventID
         /\ alerts[r1].AlertOffset = alerts[r2].AlertOffset
         /\ alerts[r1].AlertOffset <= 0) => r1 = r2

-----------------------------------------------------------------------------
\* C4 (status preservation across resync): a reconcile changes the status of
\* no alert that is in the store before it and after it, also when the
\* event of the alert has moved.
C4_StatusKeptByResync ==
    [][lastOp' = "UpdateEventsWithConfig" =>
          \A ref \in DOMAIN alerts \cap DOMAIN alerts' :
              alerts'[ref].Status = alerts[ref].Status]_vars

\* event "a", first seen starting at T0 + 1min, has been moved by a sync to
\* T0 + 2min and its dismissed zero-offset alert has moved with it
C4_Witness ==
    /\ lastOp = "UpdateEventsWithConfig"
    /\ "a" \in DOMAIN events
    /\ events["a"].SourceID = "source1"
    /\ events["a"].StartTime = T0 + 2 * Minute
    /\ \E ref \in Indexed :
        /\ alerts[ref].EventID = "a"
        /\ alerts[ref].AlertOffset = 0
        /\ alerts[ref].Status = AlertStatusAlerted
        /\ alerts[ref].AlertTime = T0 + 2 * Minute
        /\ SlotsOf(ref) = {<<T0 + 2 * Minute, 1>>}

\* the number of times a reference occurs in a slot list
Occurrences(q, ref) == Cardinality({i \in 1..Len(q) : q[i] = ref})

\* the same events, the same alerts with the same fields under the same
\* keys, and the same alerts in every minute slot (in whatever order)
SameStore(s1, s2) ==
    /\ s1.events = s2.events
    /\ s1.alerts = s2.alerts
    /\ s1.alertsById = s2.alertsById
    /\ DOMAIN s1.alertsByTime = DOMAIN s2.alertsByTime
    /\ \A k \in DOMAIN s1.alertsByTime : \A ref \in DOMAIN s1.alerts :
        Occurrences(s1.alertsByTime[k], ref) = Occurrences(s2.alertsByTime[k], ref)

\* C5 (idempotent resync): with the clock, the offsets and the quiet-time
\* configuration fixed, a second reconcile with the same event list leaves
\* the store as the first one left it.
C5_IdempotentResync ==
    \A newEvents \in Batches, alertMinutes \in AlertMinutesPool, config \in ConfigPool :
        LET once == Collect(UpdateEventsWithConfig(Store, newEvents, alertMinutes, config))
            twice == Collect(UpdateEventsWithConfig(once, newEvents, alertMinutes, config))
        IN  SameStore(once, twice)

-----------------------------------------------------------------------------
\* the keys of the alerts that alertsById holds, as a caller passes them
KnownTargets ==
    {tg \in MarkTargets : generateAlertID(tg[1], tg[2]) \in DOMAIN alertsById}

SlotCount(s) ==
    Cardinality(UNION {{<<k, i>> : i \in 1..Len(s.alertsByTime[k])} :
                          k \in DOMAIN s.alertsByTime})

\* C6 (snooze nets +1): a snooze of an existing alert adds exactly one entry
\* to alertsById and exactly one alert to the slots of alertsByTime, and
\* takes no alert out of alertsById.
C6_SnoozeNetsOne ==
    \A tg \in KnownTargets, d \in SnoozeDurations :
        LET post == MarkAlertStatus(Store, tg[1], tg[2], AlertStatusSnoozed, now + d)
        IN  /\ Cardinality(DOMAIN post.alertsById) = Cardinality(DOMAIN alertsById) + 1
            /\ SlotCount(post) = SlotCount(Store) + 1
            /\ \A id \in DOMAIN alertsById :
                id \in DOMAIN post.alertsById /\ post.alertsById[id] = alertsById[id]

\* C7 (a snoozed original never fires again), for the queries that follow
\* the snooze with nothing but clock ticks in between: the alert that a
\* snooze has set to Snoozed is not in the result of
\* GetAlertsForCurrentMinute, in the minute of the snooze or later.
C7_SnoozedOriginalNotDue ==
    \A tg \in KnownTargets, d \in SnoozeDurations, notifyUnaccepted \in BOOLEAN :
        \A clock \in {t \in ClockPoints : t >= now} :
            LET original == alertsById[generateAlertID(tg[1], tg[2])]
                post == MarkAlertStatus(Store, tg[1], tg[2], AlertStatusSnoozed, now + d)
            IN  original \notin SeqToSet(GetAlertsForCurrentMinute(post, clock, notifyUnaccepted))

AllowedTransitions ==
    {<<AlertStatusPending, AlertStatusAlerted>>,
     <<AlertStatusPending, AlertStatusSnoozed>>,
     <<AlertStatusPending, AlertStatusMuted>>,
     <<AlertStatusMuted, AlertStatusPending>>}

\* C8 (status transition relation): every change of the status of an alert
\* by a store operation is Pending to Alerted, Pending to Snoozed, Pending to
\* Muted or Muted to Pending, so that Alerted and Snoozed are never left.
C8_StatusTransitions ==
    [][\A ref \in DOMAIN alerts \cap DOMAIN alerts' :
          alerts'[ref].Status # alerts[ref].Status =>
              <<alerts[ref].Status, alerts'[ref].Status>> \in AllowedTransitions]_vars

\* the alerts of store s that a query at `clock` returns although their fire
\* time is in a quiet-time window of config, among those that the call that
\* was given config has scheduled or has found Pending
DueInQuietTime(s, config, clock, notifyUnaccepted) ==
    {ref \in SeqToSet(GetAlertsForCurrentMinute(s, clock, notifyUnaccepted)) :
        /\ ref \notin DOMAIN alerts \/ alerts[ref].Status = AlertStatusPending
        /\ IsTimeInQuietTime(config, s.alerts[ref].AlertTime)}

\* C9 (quiet-time suppression), for the queries that follow the call with
\* nothing but clock ticks in between: an alert whose fire time is in a
\* quiet-time window of the configuration given to UpdateEventsWithConfig or
\* to UpdateMutedStatusForQuietTime, scheduled by that reconcile or Pending
\* before the call, is not returned by GetAlertsForCurrentMinute.
C9_QuietTimeSuppression ==
    \A config \in ConfigPool, notifyUnaccepted \in BOOLEAN :
        \A clock \in {t \in ClockPoints : t >= now} :
            /\ DueInQuietTime(UpdateMutedStatusForQuietTime(Store, config),
                              config, clock, notifyUnaccepted) = {}
            /\ \A newEvents \in Batches, alertMinutes \in AlertMinutesPool :
                DueInQuietTime(UpdateEventsWithConfig(Store, newEvents, alertMinutes, config),
                               config, clock, notifyUnaccepted) = {}

\* what the query is to return: the alerts of the slot of the current
\* minute, in their order, that are Pending or Snoozed and, unless
\* notifyUnaccepted, whose event is not one with status NEEDS-ACTION
DueExpected(notifyUnaccepted) ==
    LET Eligible(ref) ==
            /\ alerts[ref].Status \in {AlertStatusPending, AlertStatusSnoozed}
            /\ notifyUnaccepted
                \/ ~\E id \in DOMAIN events :
                        id = alerts[ref].EventID /\ events[id].Status = NeedsAction
    IN  SelectSeq(Get(alertsByTime, RoundToMinute(now)), Eligible)

\* C10 (due-now correctness): GetAlertsForCurrentMinute returns exactly the
\* alerts of the slot of the current minute that are Pending or Snoozed,
\* less those of NEEDS-ACTION events when notifyUnaccepted is false, and a
\* query leaves the store as it is.
C10_DueNowCorrect ==
    [][/\ \A notifyUnaccepted \in BOOLEAN :
            GetAlertsForCurrentMinute(Store, now, notifyUnaccepted)
                = DueExpected(notifyUnaccepted)
       /\ lastOp' = "GetAlertsForCurrentMinute" =>
            /\ <<events, alerts, alertsById, alertsByTime>>'
                    = <<events, alerts, alertsById, alertsByTime>>
            /\ \E notifyUnaccepted \in BOOLEAN : result' = DueExpected(notifyUnaccepted)]_vars

\* a query has returned some alert of the current minute and has left out
\* another one of that minute, and there is an alert in another minute
C10_Witness ==
    /\ lastOp = "GetAlertsForCurrentMinute"
    /\ result # <<>>
    /\ Len(result) < Len(Get(alertsByTime, RoundToMinute(now)))
    /\ \E k \in DOMAIN alertsByTime : k # RoundToMinute(now)

-----------------------------------------------------------------------------
\* the alerts that either index of store s references
Held(s) == Referenced(s)

\* C11 (retention boundary): after a reconcile at time now, no event that
\* starts before now - 12h is in the store, no alert of an event that the
\* reconcile has taken out of the store is in either index, and every known
\* event and every event of the batch that starts at now - 12h or later is
\* in the store.
C11_RetentionBoundary ==
    \A newEvents \in Batches, alertMinutes \in AlertMinutesPool, config \in ConfigPool :
        LET cutoffTime == now - RetentionHours * Hour
            post == UpdateEventsWithConfig(Store, newEvents, alertMinutes, config)
            gone == DOMAIN events \ DOMAIN post.events
        IN  /\ \A id \in DOMAIN post.events : post.events[id].StartTime >= cutoffTime
            /\ \A ref \in Held(post) : post.alerts[ref].EventID \notin gone
            /\ \A id \in DOMAIN events :
                events[id].StartTime >= cutoffTime => id \in DOMAIN post.events
            /\ \A i \in 1..Len(newEvents) :
                newEvents[i].StartTime >= cutoffTime => newEvents[i].ID \in DOMAIN post.events

\* the ids of the batch events that a reconcile at `now` processes: those
\* that do not start before now - 12h
Processed(newEvents) ==
    {newEvents[i].ID : i \in {j \in 1..Len(newEvents) :
        newEvents[j].StartTime >= now - RetentionHours * Hour}}

\* alert `ref` of the current store is in store s what it is now: same
\* fields, and in the same slots as often
Untouched(s, ref) ==
    /\ ref \in Held(s)
    /\ s.alerts[ref] = alerts[ref]
    /\ (ref \in Indexed <=> ref \in {s.alertsById[id] : id \in DOMAIN s.alertsById})
    /\ \A k \in DOMAIN alertsByTime \cup DOMAIN s.alertsByTime :
        Occurrences(Get(s.alertsByTime, k), ref) = Occurrences(Get(alertsByTime, k), ref)

\* C12 (absent but recent events are kept): a reconcile takes a known event
\* out of the store only if the event is not in the processed batch and
\* starts before now - 12h; a known event that is not in the processed batch
\* and starts at now - 12h or later stays as it is, and each of its alerts
\* whose fire minute is not below the cutoff minute keeps its status, its
\* fire time and its slot.
C12_AbsentRecentKept ==
    \A newEvents \in Batches, alertMinutes \in AlertMinutesPool, config \in ConfigPool :
        LET cutoffTime == now - RetentionHours * Hour
            post == UpdateEventsWithConfig(Store, newEvents, alertMinutes, config)
        IN  \A id \in DOMAIN events :
                /\ id \notin DOMAIN post.events =>
                    id \notin Processed(newEvents) /\ events[id].StartTime < cutoffTime
                /\ (id \notin Processed(newEvents) /\ events[id].StartTime >= cutoffTime) =>
                    /\ id \in DOMAIN post.events
                    /\ post.events[id] = events[id]
                    /\ \A ref \in DOMAIN alerts :
                        (/\ alerts[ref].EventID = id
                         /\ RoundToMinute(alerts[ref].AlertTime) >= RoundToMinute(cutoffTime))
                            => Untouched(post, ref)

-----------------------------------------------------------------------------
\* the known events as a batch can bring them again: an event of the pool
\* whose id is in the store and that the reconcile at `now` processes
KnownAgain ==
    {e \in EventPool : e.ID \in DOMAIN events
                        /\ e.StartTime >= now - RetentionHours * Hour}

\* the step of UpdateEventsWithConfig for known event e: the fields of the
\* stored event refreshed, then updateAlertsForEvent
ProcessKnown(e, alertMinutes) ==
    LET refreshed == [events[e.ID] EXCEPT
                        !.Title = e.Title,
                        !.Description = e.Description,
                        !.StartTime = e.StartTime,
                        !.EndTime = e.EndTime,
                        !.MeetingLink = e.MeetingLink,
                        !.Status = e.Status]
    IN  updateAlertsForEvent([Store EXCEPT !.events = Put(@, e.ID, refreshed)],
                             e.ID, e, alertMinutes)

\* C13 (offset removal): when a reconcile processes a known event with the
\* configured minutes, the alerts of that event with a negative offset whose
\* minute value is not configured are in neither index afterwards, and every
\* other alert of the store is still there, in alertsById if it was, with
\* the status it had.
C13_OffsetRemoval ==
    \A e \in KnownAgain, alertMinutes \in AlertMinutesPool :
        LET post == ProcessKnown(e, alertMinutes)
            Unconfigured(ref) ==
                /\ alerts[ref].EventID = e.ID
                /\ alerts[ref].AlertOffset < 0
                /\ (0 - alerts[ref].AlertOffset) \notin SeqToSet(alertMinutes)
        IN  \A ref \in DOMAIN alerts :
                IF Unconfigured(ref)
                THEN ref \notin Held(post)
                ELSE /\ ref \in Held(post)
                     /\ post.alerts[ref].Status = alerts[ref].Status
                     /\ ref \in Indexed =>
                            ref \in {post.alertsById[id] : id \in DOMAIN post.alertsById}

-----------------------------------------------------------------------------
\* The store under concurrent goroutines. A public method takes as.mu, runs
\* its body and releases as.mu; the settings window's Delete action calls
\* removeEvent directly.

\* the store variables, set to the fields of s
StoreBecomes(s) ==
    /\ events' = s.events
    /\ alerts' = s.alerts
    /\ alertsById' = s.alertsById
    /\ alertsByTime' = s.alertsByTime

StoreUnchanged == UNCHANGED <<events, alerts, alertsById, alertsByTime>>

\* as.mu.Lock() and as.mu.RLock() return
CanLock == mu.writer = "none" /\ mu.readers = {}
CanRLock == mu.writer = "none"

\* syncEvents, on the sync ticker's goroutine: UpdateEventsWithConfig takes
\* the lock
SyncLock ==
    /\ pc["sync"] = Idle
    /\ calls < MaxCalls
    /\ CanLock
    /\ mu' = [mu EXCEPT !.writer = "sync"]
    /\ pc' = [pc EXCEPT !["sync"] = [at |-> "UpdateEventsWithConfig"]]
    /\ StoreUnchanged
    /\ UNCHANGED <<front, now, result, lastOp, calls>>

\* the body of UpdateEventsWithConfig, under the lock
SyncBody ==
    /\ pc["sync"].at = "UpdateEventsWithConfig"
    /\ \E newEvents \in Batches, settings \in SyncSettings :
        Becomes(UpdateEventsWithConfig(Store, newEvents, settings[1], settings[2]))
    /\ pc' = [pc EXCEPT !["sync"] = [at |-> "Unlock"]]
    /\ lastOp' = "UpdateEventsWithConfig"
    /\ UNCHANGED <<front, now, result, mu>>

\* the deferred as.mu.Unlock()
Unlock(t) ==
    /\ pc[t].at = "Unlock"
    /\ mu' = [mu EXCEPT !.writer = "none"]
    /\ pc' = [pc EXCEPT ![t] = Idle]
    /\ StoreUnchanged
    /\ UNCHANGED <<front, now, result, lastOp, calls>>

SyncUnlock == Unlock("sync")

\* checkAlerts, on the alert ticker's goroutine: GetAlertsForCurrentMinute
\* takes the read lock, reads, and releases it
ReadLock ==
    /\ pc["alert"] = Idle
    /\ CanRLock
    /\ mu' = [mu EXCEPT !.readers = @ \cup {"alert"}]
    /\ pc' = [pc EXCEPT !["alert"] = [at |-> "GetAlertsForCurrentMinute"]]
    /\ StoreUnchanged
    /\ UNCHANGED <<front, now, result, lastOp, calls>>

ReadBody ==
    /\ pc["alert"].at = "GetAlertsForCurrentMinute"
    /\ \E notifyUnaccepted \in BOOLEAN :
        result' = GetAlertsForCurrentMinute(Store, now, notifyUnaccepted)
    /\ pc' = [pc EXCEPT !["alert"] = [at |-> "RUnlock"]]
    /\ lastOp' = "GetAlertsForCurrentMinute"
    /\ StoreUnchanged
    /\ UNCHANGED <<front, now, calls, mu>>

ReadUnlock ==
    /\ pc["alert"].at = "RUnlock"
    /\ mu' = [mu EXCEPT !.readers = @ \ {"alert"}]
    /\ pc' = [pc EXCEPT !["alert"] = Idle]
    /\ StoreUnchanged
    /\ UNCHANGED <<front, now, result, lastOp, calls>>

\* the alert window's snooze callback, on the UI goroutine: MarkAlertStatus
\* takes the lock; `before` is the store as the call found it
SnoozeLock ==
    /\ pc["ui"] = Idle
    /\ calls < MaxCalls
    /\ CanLock
    /\ \E target \in KnownTargets, d \in SnoozeDurations :
        pc' = [pc EXCEPT !["ui"] =
                [at |-> "MarkAlertStatus", eventID |-> target[1],
                 alertOffset |-> target[2], snoozedUntil |-> now + d,
                 before |-> Store]]
    /\ mu' = [mu EXCEPT !.writer = "ui"]
    /\ StoreUnchanged
    /\ UNCHANGED <<front, now, result, lastOp, calls>>

\* alert.Status = models.AlertStatusSnoozed
SnoozeSetStatus ==
    /\ pc["ui"].at = "MarkAlertStatus"
    /\ LET alert == alertsById[generateAlertID(pc["ui"].eventID, pc["ui"].alertOffset)]
       IN  alerts' = [alerts EXCEPT ![alert].Status = AlertStatusSnoozed]
    /\ pc' = [pc EXCEPT !["ui"].at = "MarkAlertStatus.byId"]
    /\ UNCHANGED <<front, now, events, alertsById, alertsByTime, result, lastOp, calls, mu>>

\* as.alertsById[newAlertID] = newAlert
SnoozePutById ==
    /\ pc["ui"].at = "MarkAlertStatus.byId"
    /\ Cardinality(DOMAIN alerts) < MaxAlerts
    /\ LET p == pc["ui"]
           alert == alertsById[generateAlertID(p.eventID, p.alertOffset)]
           snoozeMinutes == (p.snoozedUntil - now) \div Minute
           ref == NewRef(Store)
           newAlert == [EventID |-> alerts[alert].EventID,
                        Status |-> AlertStatusPending,
                        AlertTime |-> p.snoozedUntil,
                        AlertOffset |-> snoozeMinutes]
       IN  /\ alerts' = Put(alerts, ref, newAlert)
           /\ alertsById' = Put(alertsById, generateAlertID(p.eventID, snoozeMinutes), ref)
           /\ pc' = [pc EXCEPT !["ui"] = [p EXCEPT !.at = "MarkAlertStatus.byTime"]
                                            @@ [newAlert |-> ref]]
    /\ UNCHANGED <<front, now, events, alertsByTime, result, lastOp, calls, mu>>

\* as.alertsByTime[timeKey] = append(as.alertsByTime[timeKey], newAlert)
SnoozeAppend ==
    /\ pc["ui"].at = "MarkAlertStatus.byTime"
    /\ StoreBecomes(Collect(AppendToTimeIndex(Store, RoundToMinute(pc["ui"].snoozedUntil),
                                              pc["ui"].newAlert)))
    /\ pc' = [pc EXCEPT !["ui"] = [at |-> "Unlock"]]
    /\ calls' = calls + 1
    /\ lastOp' = "MarkAlertStatus"
    /\ UNCHANGED <<front, now, result, mu>>

UIUnlock == Unlock("ui")

\* the by-id keys of the alerts of an event
KeysOf(eventID) ==
    {id \in DOMAIN alertsById : alerts[alertsById[id]].EventID = eventID}

\* showDeleteAlertDialog, on the UI goroutine, calls removeEvent for the
\* event of the selected row, without as.mu: delete(as.events, eventID)
DeleteEvent ==
    /\ pc["ui"] = Idle
    /\ calls < MaxCalls
    /\ \E eventID \in DOMAIN events :
        /\ events' = Del(events, eventID)
        /\ pc' = [pc EXCEPT !["ui"] =
                    [at |-> "removeEvent", eventID |-> eventID, before |-> Store]]
    /\ UNCHANGED <<front, now, alerts, alertsById, alertsByTime, result, lastOp, calls, mu>>

\* removeEvent, the loop over as.alertsById: as.removeAlertFromTimeIndex
DeleteFromTimeIndex ==
    /\ pc["ui"].at = "removeEvent"
    /\ \E alertID \in KeysOf(pc["ui"].eventID) :
        LET timeKey == RoundToMinute(alerts[alertsById[alertID]].AlertTime)
        IN  /\ alertsByTime' = removeAlertFromTimeIndex(Store, timeKey, alertID).alertsByTime
            /\ pc' = [pc EXCEPT !["ui"] =
                        [at |-> "removeEvent.byId", eventID |-> pc["ui"].eventID,
                         alertID |-> alertID, before |-> pc["ui"].before]]
    /\ UNCHANGED <<front, now, events, alerts, alertsById, result, lastOp, calls, mu>>

\* removeEvent, the loop over as.alertsById: delete(as.alertsById, alertID)
DeleteFromById ==
    /\ pc["ui"].at = "removeEvent.byId"
    /\ StoreBecomes(Collect([Store EXCEPT !.alertsById =
            [id \in DOMAIN alertsById \ {pc["ui"].alertID} |-> alertsById[id]]]))
    /\ pc' = [pc EXCEPT !["ui"] =
                [at |-> "removeEvent", eventID |-> pc["ui"].eventID,
                 before |-> pc["ui"].before]]
    /\ UNCHANGED <<front, now, result, lastOp, calls, mu>>

\* removeEvent returns: no alert of the event is left in as.alertsById
DeleteReturn ==
    /\ pc["ui"].at = "removeEvent"
    /\ KeysOf(pc["ui"].eventID) = {}
    /\ pc' = [pc EXCEPT !["ui"] = Idle]
    /\ calls' = calls + 1
    /\ lastOp' = "removeEvent"
    /\ StoreUnchanged
    /\ UNCHANGED <<front, now, result, mu>>

NextConcurrent ==
    \/ SyncLock
    \/ SyncBody
    \/ SyncUnlock
    \/ ReadLock
    \/ ReadBody
    \/ ReadUnlock
    \/ SnoozeLock
    \/ SnoozeSetStatus
    \/ SnoozePutById
    \/ SnoozeAppend
    \/ UIUnlock
    \/ DeleteEvent
    \/ DeleteFromTimeIndex
    \/ DeleteFromById
    \/ DeleteReturn

SpecConcurrent == Init /\ [][NextConcurrent]_vars

-----------------------------------------------------------------------------
\* the store as the call that goroutine t is in leaves it when it runs alone
\* on the store it found
After(t) ==
    IF pc[t].at \in {"removeEvent", "removeEvent.byId"}
    THEN removeEvent(pc[t].before, pc[t].eventID)
    ELSE MarkAlertStatus(pc[t].before, pc[t].eventID, pc[t].alertOffset,
                         AlertStatusSnoozed, pc[t].snoozedUntil)

\* C14 (atomic visibility): while a reader holds the read lock, the store is
\* not between the two ends of a write: for every write that is under way,
\* the reader sees the store either as that write found it or as that write
\* leaves it.
C14_AtomicVisibility ==
    \A t \in Goroutines :
        (mu.readers # {} /\ "before" \in DOMAIN pc[t]) =>
            \/ Collect(Store) = Collect(pc[t].before)
            \/ Collect(Store) = Collect(After(t))

\* C15 (lock discipline): every step of a goroutine that changes events,
\* alertsById or alertsByTime is taken while that goroutine holds the write
\* lock of the store.
C15_LockDiscipline ==
    [][\A t \in Goroutines :
        (/\ pc'[t] # pc[t]
         /\ <<events, alertsById, alertsByTime>>' # <<events, alertsById, alertsByTime>>)
            => mu.writer = t]_vars

-----------------------------------------------------------------------------
\* the alerts that a reconcile of the current store allocates for events
\* that the store did not know
CreatedForUnseen(post) ==
    {ref \in DOMAIN post.alerts \ DOMAIN alerts :
        post.alerts[ref].EventID \notin DOMAIN events}

QuietStatus(config, alertTime) ==
    IF IsTimeInQuietTime(config, alertTime)
    THEN AlertStatusMuted ELSE AlertStatusPending

\* the store driven by the calendar sync and the settings window only:
\* reconciliation, manual alarms, deletions and quiet-time changes
NextSettings ==
    \/ Tick
    \/ ReconcileSync
    \/ ManualAlert
    \/ RemoveEvent
    \/ QuietTimeChange

SpecSettings == Init /\ [][NextSettings]_vars

\* C16 (quiet-time status at creation): when a reconcile with a non-nil
\* configuration inserts an event the store did not know, each alert it
\* creates for that event is Muted if and only if its fire time lies in one
\* of the configured quiet-time windows, and Pending otherwise.
C16_QuietStatusAtCreation ==
    \A newEvents \in Batches, alertMinutes \in AlertMinutesPool, config \in ConfigPool :
        LET post == UpdateEventsWithConfig(Store, newEvents, alertMinutes, config)
        IN  \A ref \in CreatedForUnseen(post) :
                post.alerts[ref].Status = QuietStatus(config, post.alerts[ref].AlertTime)

\* a reconcile has just inserted the events of an empty store, one with an
\* alert inside the quiet window (Muted) and one with an alert outside it
\* (Pending)
C16_Witness ==
    /\ lastOp = "UpdateEventsWithConfig"
    /\ calls = 1
    /\ \E r1, r2 \in DOMAIN alertsById :
        LET quiet == alerts[alertsById[r1]]
            loud == alerts[alertsById[r2]]
        IN  /\ quiet.Status = AlertStatusMuted
            /\ IsTimeInQuietTime(Config(<<TimeRange(0, 1, 0, 2)>>), quiet.AlertTime)
            /\ loud.Status = AlertStatusPending
            /\ ~IsTimeInQuietTime(Config(<<TimeRange(0, 1, 0, 2)>>), loud.AlertTime)

-----------------------------------------------------------------------------
\* C17 (bulk quiet-time re-evaluation): after UpdateMutedStatusForQuietTime
\* with any configuration, every alert of the store that was Pending or Muted
\* is Muted if and only if its fire time lies in a quiet-time window of that
\* configuration, every alert that was Alerted or Snoozed keeps its status,
\* and no fire time, bucket, by-id entry or event changes.
C17_BulkQuietTime ==
    \A config \in ConfigPool :
        LET post == UpdateMutedStatusForQuietTime(Store, config)
        IN  /\ post.events = events
            /\ post.alertsById = alertsById
            /\ post.alertsByTime = alertsByTime
            /\ \A ref \in Held(Store) :
                /\ post.alerts[ref].AlertTime = alerts[ref].AlertTime
                /\ post.alerts[ref].Status =
                    IF alerts[ref].Status \in {AlertStatusPending, AlertStatusMuted}
                    THEN QuietStatus(config, alerts[ref].AlertTime)
                    ELSE alerts[ref].Status

-----------------------------------------------------------------------------
\* the (event id, offset) pairs and the arguments a stale caller may pass
StaleOffsets == {0 - 1, 0, 1, 2}

AlertExists(eventID, alertOffset) ==
    \E ref \in Held(Store) :
        alerts[ref].EventID = eventID /\ alerts[ref].AlertOffset = alertOffset

\* C18 (unknown keys are harmless): MarkAlertStatus for an (event id, offset)
\* pair of which the store holds no alert, with any status and with or
\* without a snooze time, leaves the events, the alerts and both indexes as
\* they are; GetEvent of an unknown id yields nil.
C18_UnknownKeysHarmless ==
    /\ \A eventID \in EventIDs, alertOffset \in StaleOffsets, status \in AlertStatuses,
          snoozedUntil \in {NilTime} \cup {now + d : d \in SnoozeDurations} :
            ~AlertExists(eventID, alertOffset) =>
                Collect(MarkAlertStatus(Store, eventID, alertOffset, status, snoozedUntil))
                    = Store
    /\ \A eventID \in EventIDs :
            eventID \notin DOMAIN events => GetEvent(Store, eventID) = NilEvent

-----------------------------------------------------------------------------
\* C19 (RemoveEvent completeness): after RemoveEvent of any id, the id is no
\* key of events and no alert of that event, of any offset, is left in
\* alertsById or in a bucket of alertsByTime; the other events and their
\* alerts are what they were.
C19_RemoveEventComplete ==
    \A eventID \in EventIDs :
        LET post == removeEvent(Store, eventID)
        IN  /\ eventID \notin DOMAIN post.events
            /\ \A ref \in Held(post) : post.alerts[ref].EventID # eventID
            /\ \A e \in DOMAIN events \ {eventID} :
                e \in DOMAIN post.events /\ post.events[e] = events[e]
            /\ \A ref \in Held(Store) :
                alerts[ref].EventID # eventID => Untouched(post, ref)

-----------------------------------------------------------------------------
\* the zero-offset alerts that store s holds for an event id
ZeroOffsetAlerts(s, eventID) ==
    {ref \in Held(s) : s.alerts[ref].EventID = eventID /\ s.alerts[ref].AlertOffset = 0}

\* C20 (AddManualAlert postcondition): after AddManualAlert(event, fireTime)
\* in any state, also one that knows event.ID, events maps event.ID to the
\* given event and the store holds exactly one zero-offset alert of event.ID:
\* Pending, with fire time fireTime, the one alertsById references, and in
\* the bucket of fireTime's minute and in no other bucket.
C20_ManualAlertPostcondition ==
    \A id \in EventIDs, delay \in {Minute, 2 * Minute} :
        LET alertTime == now + delay
            event == Event(id, "1", alertTime)
            post == AddManualAlert(Store, event, alertTime)
            alertID == generateAlertID(id, 0)
        IN  /\ post.events[id] = event
            /\ alertID \in DOMAIN post.alertsById
            /\ ZeroOffsetAlerts(post, id) = {post.alertsById[alertID]}
            /\ post.alerts[post.alertsById[alertID]].Status = AlertStatusPending
            /\ post.alerts[post.alertsById[alertID]].AlertTime = alertTime
            /\ \A k \in DOMAIN post.alertsByTime :
                Occurrences(post.alertsByTime[k], post.alertsById[alertID]) =
                    IF k = RoundToMinute(alertTime) THEN 1 ELSE 0

-----------------------------------------------------------------------------
\* the alerts of the by-id index that fire after now - 12h
RecentById ==
    {ref \in Indexed : alerts[ref].AlertTime > now - RetentionHours * Hour}

\* C21 (AllScheduled result): GetAllScheduledAlerts called at time now
\* returns exactly the alerts of the by-id index whose fire time is strictly
\* after now - 12h, each once, in non-decreasing order of fire time, whatever
\* the order in which the map yields its keys.
C21_AllScheduledResult ==
    \A order \in MapOrders(DOMAIN alertsById) :
        LET listed == GetAllScheduledAlerts(Store, now, order)
        IN  /\ SeqToSet(listed) = RecentById
            /\ Len(listed) = Cardinality(RecentById)
            /\ \A i, j \in 1..Len(listed) :
                i < j => alerts[listed[i]].AlertTime <= alerts[listed[j]].AlertTime

\* the by-id index holds an alert that fires exactly at now - 12h (left out)
\* and an alert that fires after it (listed)
C21_Witness ==
    /\ \E ref \in Indexed : alerts[ref].AlertTime = now - RetentionHours * Hour
    /\ RecentById # {}

-----------------------------------------------------------------------------
\* The alert window's hold buttons (HoldButton, AlertWindow.startCloseProgress
\* and stopCloseProgress, and the same for snooze). The pointer is on one
\* button at a time. Every press makes a new time.Ticker and a goroutine that
\* ranges over its channel; the channel buffers one tick.

storeVars == <<now, events, alerts, alertsById, alertsByTime, result, lastOp,
               calls, mu, pc>>

WindowOpen == hold.invoked = <<>>

\* startCloseProgress / startSnoozeProgress
startProgress(h, b) ==
    IF h.held[b] THEN h
    ELSE [h EXCEPT !.held[b] = TRUE,
                   !.progress[b] = 0,
                   !.tickers = Append(@, [button |-> b, stopped |-> FALSE, fired |-> 0,
                                          buffered |-> FALSE, ranging |-> TRUE]),
                   !.ticker[b] = Len(h.tickers) + 1]

\* stopCloseProgress / stopSnoozeProgress
stopProgress(h, b) ==
    LET t == h.ticker[b]
        h1 == [h EXCEPT !.held[b] = FALSE, !.progress[b] = 0]
    IN  IF t = 0 THEN h1 ELSE [h1 EXCEPT !.tickers[t].stopped = TRUE]

\* HoldButton.MouseIn: the pointer comes onto a button
MouseIn ==
    \E b \in Buttons :
        /\ WindowOpen
        /\ \A other \in Buttons : ~hold.hovered[other]
        /\ hold' = [hold EXCEPT !.hovered[b] = TRUE]
        /\ UNCHANGED <<storeVars, driver, windows>>

\* HoldButton.MouseDown
MouseDown ==
    \E b \in Buttons :
        /\ WindowOpen
        /\ hold.hovered[b]
        /\ Len(hold.tickers) < MaxPresses
        /\ hold' = startProgress([hold EXCEPT !.holding[b] = TRUE], b)
        /\ UNCHANGED <<storeVars, driver, windows>>

\* HoldButton.MouseUp
MouseUp ==
    \E b \in Buttons :
        /\ WindowOpen
        /\ hold.holding[b]
        /\ hold' = stopProgress([hold EXCEPT !.holding[b] = FALSE], b)
        /\ UNCHANGED <<storeVars, driver, windows>>

\* HoldButton.MouseOut: the pointer leaves the button, held or not
MouseOut ==
    \E b \in Buttons :
        /\ WindowOpen
        /\ hold.hovered[b]
        /\ hold' =
            IF hold.holding[b]
            THEN stopProgress([hold EXCEPT !.hovered[b] = FALSE, !.holding[b] = FALSE], b)
            ELSE [hold EXCEPT !.hovered[b] = FALSE]
        /\ UNCHANGED <<storeVars, driver, windows>>

\* a ticker that is not stopped fires every 50 ms: the tick goes into the
\* channel's buffer, or is dropped when the buffer is full
TickerFires ==
    \E t \in 1..Len(hold.tickers) :
        /\ WindowOpen
        /\ ~hold.tickers[t].stopped
        /\ hold.tickers[t].fired <= HoldTicks
        /\ hold' = [hold EXCEPT !.tickers[t].fired = @ + 1,
                                !.tickers[t].buffered = TRUE]
        /\ UNCHANGED <<storeVars, driver, windows>>

\* one pass of `for range ticker.C` in the goroutine of ticker t: it returns
\* when the button is not held, else adds one increment to the progress and,
\* at 1.0, stops the window's current ticker and calls the callback
ProgressLoop ==
    \E t \in 1..Len(hold.tickers) :
        LET b == hold.tickers[t].button
            taken == [hold EXCEPT !.tickers[t].buffered = FALSE]
            gone == [taken EXCEPT !.tickers[t].ranging = FALSE]
            currentProgress == hold.progress[b] + 1
            current == hold.ticker[b]
        IN  /\ WindowOpen
            /\ hold.tickers[t].ranging
            /\ hold.tickers[t].buffered
            /\ hold' =
                IF ~hold.held[b] THEN gone
                ELSE IF currentProgress < HoldTicks
                THEN [taken EXCEPT !.progress[b] = currentProgress]
                ELSE [gone EXCEPT !.progress[b] = currentProgress,
                                  !.tickers[current].stopped = TRUE,
                                  !.invoked = Append(@,
                                      [button |-> b,
                                       holding |-> hold.holding[b],
                                       heldTicks |-> hold.tickers[current].fired])]
            /\ UNCHANGED <<storeVars, driver, windows>>

NextHold ==
    \/ MouseIn
    \/ MouseDown
    \/ MouseUp
    \/ MouseOut
    \/ TickerFires
    \/ ProgressLoop

SpecHold == Init /\ [][NextHold]_vars

\* C22 (hold-to-confirm): a callback of the alert window is invoked only
\* while its button is held and after the ticker of the most recent press
\* has fired for the full hold time (HoldTicks ticks of 50 ms); a button that
\* is not held has progress zero.
C22_HoldToConfirm ==
    /\ \A i \in 1..Len(hold.invoked) :
        /\ hold.invoked[i].holding
        /\ hold.invoked[i].heldTicks >= HoldTicks
    /\ \A b \in Buttons : ~hold.holding[b] => hold.progress[b] = 0

-----------------------------------------------------------------------------
\* the alerts that the step allocates
Created == DOMAIN alerts' \ DOMAIN alerts

\* the step is a snooze: a MarkAlertStatus call that adds an alert
SnoozeStep == lastOp' = "MarkAlertStatus" /\ calls' # calls /\ Created # {}

\* C23a: a snooze never replaces a snooze-generated alert (positive offset)
\* in the by-id index.
SnoozeKeepsEarlierSnoozes ==
    SnoozeStep =>
        \A id \in DOMAIN alertsById :
            alerts[alertsById[id]].AlertOffset > 0 =>
                id \in DOMAIN alertsById' /\ alertsById'[id] = alertsById[id]

\* C23b: a snooze stores its successor under a key that no entry had.
SnoozeKeyUnused ==
    SnoozeStep =>
        \A ref \in Created :
            generateAlertID(alerts'[ref].EventID, alerts'[ref].AlertOffset)
                \notin DOMAIN alertsById

\* C23 (snooze keys collide only within one minute): a snooze never replaces
\* an earlier snooze-generated alert in the by-id index, and every snooze
\* creates its entry under a key that was unused before it.
C23_SnoozeKeysFresh ==
    [][SnoozeKeepsEarlierSnoozes /\ SnoozeKeyUnused]_vars

-----------------------------------------------------------------------------
\* alert `ref` is in store s2 what it is in store s1: referenced by the by-id
\* index under the same key, with the same fields and in the same slots
SameAlert(s1, s2, ref) ==
    /\ ref \in DOMAIN s2.alerts
    /\ s2.alerts[ref] = s1.alerts[ref]
    /\ \A id \in DOMAIN s1.alertsById :
        s1.alertsById[id] = ref => (id \in DOMAIN s2.alertsById /\ s2.alertsById[id] = ref)
    /\ \A k \in DOMAIN s1.alertsByTime \cup DOMAIN s2.alertsByTime :
        Occurrences(Get(s2.alertsByTime, k), ref) = Occurrences(Get(s1.alertsByTime, k), ref)

\* the reconcile that follows the snooze of `target` until snoozedUntil
\* leaves the alert that the snooze created as it is
DurableAfter(target, snoozedUntil, newEvents, alertMinutes, config) ==
    LET successor == NewRef(Store)
        snoozed == MarkAlertStatus(Store, target[1], target[2],
                                   AlertStatusSnoozed, snoozedUntil)
        post == UpdateEventsWithConfig(snoozed, newEvents, alertMinutes, config)
        cutoffTime == now - RetentionHours * Hour
    IN  (/\ successor \in DOMAIN snoozed.alerts
         /\ snoozed.alerts[successor].EventID \in DOMAIN post.events
         /\ RoundToMinute(snoozedUntil) >= RoundToMinute(cutoffTime))
            => SameAlert(snoozed, post, successor)

\* C24 (snoozed alerts are durable under resync): while its event stays in
\* the store and its fire minute is not below the retention cutoff, the
\* alert that a snooze creates is not deleted, moved or changed in status by
\* a reconcile, whatever the batch, the configured offsets and the length
\* of the snooze (also one shorter than a minute).
C24_SnoozeDurable ==
    \A target \in KnownTargets, d \in SnoozeDurations :
        \A newEvents \in Batches, alertMinutes \in AlertMinutesPool, config \in ConfigPool :
            DurableAfter(target, now + d, newEvents, alertMinutes, config)

-----------------------------------------------------------------------------
\* snoozeMinutes: int(snoozedUntil.Sub(time.Now()).Minutes()), not below 0
WholeMinutes(snoozedUntil) ==
    IF snoozedUntil - now < 0 THEN 0 ELSE (snoozedUntil - now) \div Minute

\* C25 (snooze postcondition on the two alerts): MarkAlertStatus(eventID,
\* offset, Snoozed, snoozedUntil) on an existing alert leaves that alert in
\* the store, Snoozed, with its fire time and its bucket slots as they were;
\* the alert it adds has the same event id, is Pending, fires exactly at
\* snoozedUntil, is in the bucket of snoozedUntil's minute, and has offset
\* max(0, whole minutes from now to snoozedUntil).
C25_SnoozePostcondition ==
    \A original \in Held(Store), d \in SnoozeDurations :
        LET snoozedUntil == now + d
            eventID == alerts[original].EventID
            successor == NewRef(Store)
            post == MarkAlertStatus(Store, eventID, alerts[original].AlertOffset,
                                    AlertStatusSnoozed, snoozedUntil)
        IN  /\ original \in Held(post)
            /\ post.alerts[original] =
                    [alerts[original] EXCEPT !.Status = AlertStatusSnoozed]
            /\ \A k \in DOMAIN alertsByTime \cup DOMAIN post.alertsByTime :
                Occurrences(Get(post.alertsByTime, k), original)
                    = Occurrences(Get(alertsByTime, k), original)
            /\ successor \in Held(post)
            /\ post.alerts[successor] =
                    [EventID |-> eventID, Status |-> AlertStatusPending,
                     AlertTime |-> snoozedUntil,
                     AlertOffset |-> WholeMinutes(snoozedUntil)]
            /\ Occurrences(Get(post.alertsByTime, RoundToMinute(snoozedUntil)), successor) = 1

-----------------------------------------------------------------------------
\* C26 (relocation on time shift): after a reconcile has processed a known
\* event, every alert of that event that alertsById held under a configured
\* offset of m minutes fires at the event's new start time minus m minutes
\* (also when that is in the past), is in the bucket of that fire time, and
\* is not in the bucket of its old fire time when the two minutes differ.
C26_RelocationOnTimeShift ==
    \A e \in KnownAgain, alertMinutes \in AlertMinutesPool :
        LET post == ProcessKnown(e, alertMinutes)
        IN  \A i \in 1..Len(alertMinutes) :
                LET alertID == generateAlertID(e.ID, 0 - alertMinutes[i])
                    ref == alertsById[alertID]
                    alertTime == e.StartTime - alertMinutes[i] * Minute
                    oldKey == RoundToMinute(alerts[ref].AlertTime)
                    newKey == RoundToMinute(alertTime)
                IN  (alertID \in DOMAIN alertsById /\ alerts[ref].EventID = e.ID) =>
                        /\ post.alerts[ref].AlertTime = alertTime
                        /\ Occurrences(Get(post.alertsByTime, newKey), ref) = 1
                        /\ oldKey # newKey =>
                            Occurrences(Get(post.alertsByTime, oldKey), ref) = 0

-----------------------------------------------------------------------------
\* the cutoffs that an eviction is tried with: the one of a reconcile at
\* `now`, and later ones
Cutoffs == {now - RetentionHours * Hour, now, now + Minute + HalfMinute}

\* C27 (eviction postcondition): after cleanupOldAlerts(cutoff) no bucket
\* below the cutoff minute exists, no alert that was in such a bucket is
\* referenced by alertsById, and no event that starts before the cutoff
\* exists; every bucket at or above the cutoff minute keeps exactly its
\* alerts, each of these alerts that alertsById referenced is still
\* referenced by it, and every event that starts at the cutoff or later stays.
C27_EvictionPostcondition ==
    \A cutoffTime \in Cutoffs :
        LET post == cleanupOldAlerts(Store, cutoffTime)
            cutoffKey == RoundToMinute(cutoffTime)
            postIndexed == {post.alertsById[id] : id \in DOMAIN post.alertsById}
        IN  /\ \A k \in DOMAIN post.alertsByTime : k >= cutoffKey
            /\ \A k \in DOMAIN alertsByTime :
                IF k < cutoffKey
                THEN \A i \in 1..Len(alertsByTime[k]) : alertsByTime[k][i] \notin postIndexed
                ELSE /\ k \in DOMAIN post.alertsByTime
                     /\ post.alertsByTime[k] = alertsByTime[k]
                     /\ \A i \in 1..Len(alertsByTime[k]) :
                            alertsByTime[k][i] \in Indexed =>
                                alertsByTime[k][i] \in postIndexed
            /\ \A e \in DOMAIN events :
                IF events[e].StartTime < cutoffTime
                THEN e \notin DOMAIN post.events
                ELSE e \in DOMAIN post.events /\ post.events[e] = events[e]
            /\ DOMAIN post.events \subseteq DOMAIN events
            /\ DOMAIN post.alertsByTime \subseteq DOMAIN alertsByTime

-----------------------------------------------------------------------------
\* every Muted alert of store s fires inside a quiet-time window of config
MutedInQuietTime(s, config) ==
    \A ref \in Held(s) :
        s.alerts[ref].Status = AlertStatusMuted =>
            IsTimeInQuietTime(config, s.alerts[ref].AlertTime)

\* C28 (Muted implies quiet time): when a reconcile or a bulk quiet-time
\* re-evaluation completes, every alert with status Muted has its fire time
\* inside a quiet-time window of the configuration passed to that call; an
\* alert that an event's time shift moves out of the windows does not stay
\* Muted.
C28_MutedImpliesQuietTime ==
    \A config \in ConfigPool :
        /\ MutedInQuietTime(UpdateMutedStatusForQuietTime(Store, config), config)
        /\ \A newEvents \in Batches, alertMinutes \in AlertMinutesPool :
            MutedInQuietTime(UpdateEventsWithConfig(Store, newEvents, alertMinutes, config),
                             config)

-----------------------------------------------------------------------------
\* The alert-check driver: a ticker of one minute and a single check five
\* seconds after the start, both running checkAlerts, next to the settings
\* window, the background sync and the callbacks of the alert windows.

\* the ticks of the alert ticker that are followed
MaxChecks == 2

LastTick == StartTime + MaxChecks * Minute

\* the countdowns entered in the Add Alarm dialog, in minutes
AlarmMinutes == {1}

\* the snooze time of the configuration, in minutes
SnoozeTime == 1

\* the id of a manual event: "manual-" and the second of its creation
ManualID(t) == "manual-" \o Itoa(t)

ManualEvent(t, alarmTime) ==
    [ID |-> ManualID(t),
     Title |-> "Manual Alarm",
     Description |-> "Manually created countdown alarm",
     StartTime |-> alarmTime,
     EndTime |-> alarmTime + 5 * Minute,
     MeetingLink |-> "",
     Status |-> Confirmed,
     SourceID |-> "manual"]

\* showAlert: no window for an alert whose event is gone, else a window
\* whose callbacks hold the alert's event id and offset
showAlert(s, ws, ref, clock) ==
    LET alert == s.alerts[ref]
        event == GetEvent(s, alert.EventID)
    IN  IF event = NilEvent THEN ws
        ELSE Append(ws, [alert |-> ref, EventID |-> alert.EventID,
                         AlertOffset |-> alert.AlertOffset,
                         AlertTime |-> alert.AlertTime,
                         openedAt |-> clock, open |-> TRUE])

RECURSIVE showFrom(_, _, _, _, _)
showFrom(s, ws, due, clock, i) ==
    IF i > Len(due) THEN ws
    ELSE IF s.alerts[due[i]].Status = AlertStatusMuted
    THEN showFrom(s, ws, due, clock, i + 1)
    ELSE showFrom(s, showAlert(s, ws, due[i], clock), due, clock, i + 1)

\* checkAlerts: nothing while the configuration has no calendar source
checkAlerts(s, ws, clock, configured, notifyUnaccepted) ==
    IF ~configured THEN ws
    ELSE showFrom(s, ws, GetAlertsForCurrentMinute(s, clock, notifyUnaccepted), clock, 1)

\* the check five seconds after the start
OneOffCheck ==
    /\ driver.oneOff # NilTime
    /\ now <= driver.oneOff
    /\ \E notifyUnaccepted \in BOOLEAN :
        windows' = checkAlerts(Store, windows, driver.oneOff, driver.configured,
                               notifyUnaccepted)
    /\ now' = driver.oneOff
    /\ driver' = [driver EXCEPT !.oneOff = NilTime]
    /\ result' = <<>>
    /\ lastOp' = "checkAlerts"
    /\ UNCHANGED <<hold, events, alerts, alertsById, alertsByTime, calls, mu, pc>>

\* a tick of the alert ticker
TickerCheck ==
    /\ driver.oneOff = NilTime
    /\ driver.tick <= LastTick
    /\ now <= driver.tick
    /\ \E notifyUnaccepted \in BOOLEAN :
        windows' = checkAlerts(Store, windows, driver.tick, driver.configured,
                               notifyUnaccepted)
    /\ now' = driver.tick
    /\ driver' = [driver EXCEPT !.tick = @ + Minute]
    /\ result' = <<>>
    /\ lastOp' = "checkAlerts"
    /\ UNCHANGED <<hold, events, alerts, alertsById, alertsByTime, calls, mu, pc>>

\* the settings window saves: the new configuration and the bulk quiet-time
\* update; with a calendar source two syncs follow, the first one of the
\* restarted background sync
SaveConfig ==
    \E sources \in BOOLEAN, config \in ConfigPool :
        /\ driver.syncs = 0
        /\ Becomes(UpdateMutedStatusForQuietTime(Store, config))
        /\ driver' = [driver EXCEPT !.configured = sources,
                                    !.syncs = IF sources THEN 2 ELSE 0]
        /\ result' = <<>>
        /\ lastOp' = "UpdateMutedStatusForQuietTime"
        /\ UNCHANGED <<hold, windows, now, mu, pc>>

\* a sync of the save in progress
SaveSync ==
    \E newEvents \in Batches, settings \in SyncSettings :
        /\ driver.syncs > 0
        /\ Becomes(UpdateEventsWithConfig(Store, newEvents, settings[1], settings[2]))
        /\ driver' = [driver EXCEPT !.syncs = @ - 1]
        /\ result' = <<>>
        /\ lastOp' = "UpdateEventsWithConfig"
        /\ UNCHANGED <<hold, windows, now, mu, pc>>

\* a tick of the sync ticker: a sync unless the configuration has no
\* calendar source
BackgroundSync ==
    /\ driver.configured
    /\ ReconcileSync

\* the Add Alarm dialog
AddAlarm ==
    \E totalMinutes \in AlarmMinutes :
        LET alarmTime == now + totalMinutes * Minute
            event == ManualEvent(now, alarmTime)
        IN  /\ driver.syncs = 0
            /\ Becomes(AddManualAlert(Store, event, alarmTime))
            /\ result' = <<>>
            /\ lastOp' = "AddManualAlert"
            /\ UNCHANGED <<front, now, mu, pc>>

\* the user holds a button of an open alert window to the end: the window
\* marks its alert as alerted, or as snoozed for the snooze time, and closes
WindowCallback ==
    \E i \in 1..Len(windows), status \in MarkedStatuses :
        LET w == windows[i]
            snoozeUntil == IF status = AlertStatusSnoozed
                           THEN now + SnoozeTime * Minute ELSE NilTime
        IN  /\ driver.syncs = 0
            /\ w.open
            /\ Becomes(MarkAlertStatus(Store, w.EventID, w.AlertOffset, status, snoozeUntil))
            /\ windows' = [windows EXCEPT ![i].open = FALSE]
            /\ result' = <<>>
            /\ lastOp' = "MarkAlertStatus"
            /\ UNCHANGED <<hold, driver, now, mu, pc>>

NextDriver ==
    \/ OneOffCheck
    \/ TickerCheck
    \/ SaveConfig
    \/ SaveSync
    \/ BackgroundSync
    \/ AddAlarm
    \/ WindowCallback

SpecDriver == Init /\ [][NextDriver]_vars

-----------------------------------------------------------------------------
\* two windows present the same alert instance at the same fire time
SameAlertShown(v, w) ==
    /\ v.alert = w.alert
    /\ v.EventID = w.EventID
    /\ v.AlertOffset = w.AlertOffset
    /\ v.AlertTime = w.AlertTime

\* C29 (each alert presented at most once): over all the checks of the
\* driver, the ticker's and the one five seconds after the start, at most
\* one alert window is opened for an alert instance at a fire time, also
\* when two checks fall into the same minute and the first window has been
\* neither dismissed nor snoozed.
C29_PresentedAtMostOnce ==
    \A i, j \in 1..Len(windows) :
        i < j => ~SameAlertShown(windows[i], windows[j])

\* a manual alarm that is pending in the minute of the clock
PendingManualAlarms(s, clock) ==
    {ref \in Held(s) :
        /\ s.alerts[ref].Status = AlertStatusPending
        /\ RoundToMinute(s.alerts[ref].AlertTime) = RoundToMinute(clock)
        /\ s.alerts[ref].EventID \in DOMAIN s.events
        /\ s.events[s.alerts[ref].EventID].SourceID = "manual"}

\* C30 (manual alarms fire without a calendar): a check of the driver in
\* the fire minute of a manual alarm that is still Pending opens a window
\* for it, whether or not a calendar source is configured.
C30_ManualAlarmsFire ==
    [][(OneOffCheck \/ TickerCheck) =>
        \A ref \in PendingManualAlarms(Store, now') :
            \E i \in 1..Len(windows') :
                /\ windows'[i].openedAt = now'
                /\ windows'[i].alert = ref
                /\ windows'[i].EventID = alerts[ref].EventID]_vars

-----------------------------------------------------------------------------
\* the events of a batch that start before the cutoff of a reconcile at the
\* current time
IsOld(event) == event.StartTime < now - RetentionHours * Hour

RECURSIVE WithoutOld(_)
WithoutOld(newEvents) ==
    IF newEvents = <<>> THEN <<>>
    ELSE IF IsOld(Head(newEvents)) THEN WithoutOld(Tail(newEvents))
    ELSE <<Head(newEvents)>> \o WithoutOld(Tail(newEvents))

\* C31 (old incoming events are ignored): a reconcile leaves the store as
\* the same reconcile without the batch events that start more than twelve
\* hours ago does: such an event is not inserted, creates no alert, and does
\* not update the fields or alerts of a known event with its id.
C31_OldIncomingIgnored ==
    \A newEvents \in Batches, settings \in SyncSettings :
        UpdateEventsWithConfig(Store, newEvents, settings[1], settings[2])
            = UpdateEventsWithConfig(Store, WithoutOld(newEvents), settings[1], settings[2])

\* the clock has moved on: an event of the pool is old by now and has the
\* id of a known event with other fields, another old one has an unknown id
C31_Witness ==
    /\ lastOp = "Tick"
    /\ \E e \in EventPool :
        /\ IsOld(e)
        /\ e.ID \in DOMAIN events
        /\ events[e.ID] # e
    /\ \E e \in EventPool : IsOld(e) /\ e.ID \notin DOMAIN events

-----------------------------------------------------------------------------
\* the alert objects that a call made: those of the store after it that
\* the store before it does not have
Inserted(pre, post) == DOMAIN post.alerts \ DOMAIN pre.alerts

\* every configured fire time of the event is before the current time
AllFireTimesPast(event, alertMinutes) ==
    \A i \in 1..Len(alertMinutes) :
        event.StartTime - alertMinutes[i] * Minute < now

\* the store driven by the calendar sync alone: reconciliations, each with
\* its eviction, as time passes
NextReconcile ==
    \/ Tick
    \/ ReconcileSync

SpecReconcile == Init /\ [][NextReconcile]_vars

\* C32 (no alert is created in the past): every alert that a reconcile
\* inserts, for an unseen event or for a newly configured offset of a known
\* one, fires at the current time or later; an unseen event whose configured
\* fire times are all past is stored and the reconcile inserts no alert
\* for it.
C32_NoAlertInThePast ==
    \A newEvents \in Batches, settings \in SyncSettings :
        LET post == UpdateEventsWithConfig(Store, newEvents, settings[1], settings[2])
        IN  /\ \A ref \in Inserted(Store, post) : post.alerts[ref].AlertTime >= now
            /\ \A i \in 1..Len(newEvents) :
                LET event == newEvents[i]
                IN  (/\ ~IsOld(event)
                     /\ event.ID \notin DOMAIN events
                     /\ AllFireTimesPast(event, settings[1]))
                    => /\ event.ID \in DOMAIN post.events
                       /\ \A ref \in Inserted(Store, post) :
                            post.alerts[ref].EventID # event.ID

\* a first reconcile has stored an event that had started, without alerts
C32_Witness ==
    /\ lastOp = "UpdateEventsWithConfig"
    /\ calls = 1
    /\ \E id \in DOMAIN events :
        /\ events[id].StartTime < now
        /\ ~IsOld(events[id])
        /\ \A ref \in Held(Store) : alerts[ref].EventID # id

-----------------------------------------------------------------------------
\* what a caller can pass to MarkAlertStatus without asking for a snooze
\* until a time: any status without a time, or a status other than Snoozed
\* with one
PlainMarks ==
    {mk \in AlertStatuses \X {NilTime, now + Minute} :
        ~(mk[1] = AlertStatusSnoozed /\ mk[2] # NilTime)}

-----------------------------------------------------------------------------
\* event `got` carries the refreshed fields of the incoming event
CarriesFieldsOf(got, event) ==
    /\ got.Title = event.Title
    /\ got.Description = event.Description
    /\ got.StartTime = event.StartTime
    /\ got.EndTime = event.EndTime
    /\ got.MeetingLink = event.MeetingLink
    /\ got.Status = event.Status

\* C34 (event refresh): after a reconcile, GetEvent of the id of each batch
\* event that does not start before the cutoff returns an event with that
\* batch event's own title, description, start, end, meeting link and
\* status, however many new events the batch has; for a known event the id
\* and the source id are those stored when it was first seen.
C34_EventRefresh ==
    \A newEvents \in Batches, settings \in SyncSettings :
        LET post == UpdateEventsWithConfig(Store, newEvents, settings[1], settings[2])
        IN  \A i \in 1..Len(newEvents) :
                LET event == newEvents[i]
                    got == GetEvent(post, event.ID)
                IN  ~IsOld(event) =>
                        /\ got # NilEvent
                        /\ CarriesFieldsOf(got, event)
                        /\ got.ID = event.ID
                        /\ event.ID \in DOMAIN events =>
                            got.SourceID = events[event.ID].SourceID

\* a reconcile has refreshed a known event from an event of another source,
\* next to a second event
C34_Witness ==
    /\ lastOp = "UpdateEventsWithConfig"
    /\ Cardinality(DOMAIN events) = 2
    /\ \E id \in DOMAIN events :
        /\ events[id].Title = "title2"
        /\ events[id].SourceID = "source1"

-----------------------------------------------------------------------------
\* the NEEDS-ACTION filter leaves the alert of store s out
ExcludedAsUnaccepted(s, ref, notifyUnaccepted) ==
    /\ ~notifyUnaccepted
    /\ s.alerts[ref].EventID \in DOMAIN s.events
    /\ s.events[s.alerts[ref].EventID].Status = NeedsAction

\* instants of the fire minute of an alert, at which the driver may call
FireMinuteInstants(s, ref) ==
    LET minute == RoundToMinute(s.alerts[ref].AlertTime)
    IN  {minute, minute + 1, minute + HalfMinute, minute + Minute - 1}

\* every Pending alert of store s that the NEEDS-ACTION filter does not
\* exclude is returned by a query at any instant of its fire minute
DueSurfaced(s) ==
    \A ref \in Held(s), notifyUnaccepted \in BOOLEAN :
        (/\ s.alerts[ref].Status = AlertStatusPending
         /\ ~ExcludedAsUnaccepted(s, ref, notifyUnaccepted))
        => \A clock \in FireMinuteInstants(s, ref) :
            ref \in SeqToSet(GetAlertsForCurrentMinute(s, clock, notifyUnaccepted))

\* C35 (due alerts are surfaced): an alert that is in the store with status
\* Pending, whose event the NEEDS-ACTION filter does not exclude, is in the
\* result of a GetAlertsForCurrentMinute call made at any instant of its
\* fire minute, so that with a call in every minute an alert that stays
\* Pending with its fire time through that minute is returned; this in the
\* store as it is and as a RemoveEvent of any id leaves it.
C35_DueAlertsSurfaced ==
    /\ DueSurfaced(Store)
    /\ \A eventID \in EventIDs : DueSurfaced(removeEvent(Store, eventID))

-----------------------------------------------------------------------------
\* C36 (user deletion survives resync): once RemoveEvent has deleted an
\* event, a later reconcile whose batch has an event with that id brings
\* neither the event nor an alert of it back into the store.
C36_DeletionSurvivesResync ==
    [][lastOp' = "RemoveEvent" =>
        \A id \in DOMAIN events \ DOMAIN events' :
            \A newEvents \in Batches, settings \in SyncSettings :
                LET post == UpdateEventsWithConfig(Store', newEvents,
                                                   settings[1], settings[2])
                IN  /\ id \notin DOMAIN post.events
                    /\ \A ref \in Inserted(Store', post) :
                        post.alerts[ref].EventID # id]_vars

-----------------------------------------------------------------------------
\* Config.IsTimeInQuietTime on its own: a configuration with up to MaxRanges
\* quiet-time ranges is asked about an instant

\* the quiet-time ranges of one configuration
MaxRanges == 2

\* a range within a day, an overnight one, an empty one (start = end), one
\* around midnight, and a long one
QuietRangePool ==
    {TimeRange(0, 1, 0, 2), TimeRange(22, 0, 8, 0), TimeRange(8, 0, 8, 0),
     TimeRange(23, 59, 0, 1), TimeRange(8, 0, 22, 30)}

QuietRangeLists == UNION {[1..n -> QuietRangePool] : n \in 0..MaxRanges}

\* instants at and next to the ends of the ranges
QuietInstants ==
    {T0, T0 + Minute, T0 + 2 * Minute, T0 + 8 * Hour - 1, T0 + 8 * Hour,
     T0 + 22 * Hour, T0 + 22 * Hour + 30 * Minute,
     T0 + 23 * Hour + 59 * Minute, T0 + 24 * Hour - 1}

InitQuiet ==
    /\ now = T0
    /\ events = EmptyMap
    /\ alerts = EmptyMap
    /\ alertsById = EmptyMap
    /\ alertsByTime = EmptyMap
    /\ \E ranges \in QuietRangeLists, t \in QuietInstants :
        result = [ranges |-> ranges, t |-> t, asked |-> FALSE, inQuietTime |-> FALSE]
    /\ lastOp = "NewAlertStore"
    /\ calls = 0
    /\ mu = Unlocked
    /\ pc = [t \in Goroutines |-> Idle]
    /\ hold = NewAlertWindow
    /\ driver = NewDriver
    /\ windows = <<>>

\* the call of IsTimeInQuietTime
AskQuietTime ==
    /\ ~result.asked
    /\ result' = [result EXCEPT
                    !.asked = TRUE,
                    !.inQuietTime = IsTimeInQuietTime(Config(result.ranges), result.t)]
    /\ lastOp' = "IsTimeInQuietTime"
    /\ UNCHANGED <<front, now, events, alerts, alertsById, alertsByTime, calls, mu, pc>>

NextQuiet == AskQuietTime

SpecQuiet == InitQuiet /\ [][NextQuiet]_vars

\* the minute of the day of an instant, from its hour and its minute
MinuteOfDay(t) == ((t \div Hour) % 24) * 60 + ((t \div Minute) % 60)

\* the instant is in the range as the specification words it
Contains(tr, m) ==
    LET s == tr.StartHour * 60 + tr.StartMinute
        e == tr.EndHour * 60 + tr.EndMinute
    IN  \/ s <= e /\ s <= m /\ m < e
        \/ e < s /\ (m >= s \/ m < e)

\* C37 (quiet-time window membership): IsTimeInQuietTime(t) is true exactly
\* if some configured range, with start s and end e in minutes of the day,
\* has s <= m < e for s <= e, or m >= s or m < e for e < s, m being the
\* minute of the day of t; a range with s = e contains no time and an empty
\* list of ranges gives false.
C37_QuietTimeMembership ==
    result.asked =>
        /\ result.inQuietTime
            <=> \E i \in 1..Len(result.ranges) :
                    Contains(result.ranges[i], MinuteOfDay(result.t))
        /\ result.ranges = <<>> => ~result.inQuietTime
        /\ (\A i \in 1..Len(result.ranges) :
                result.ranges[i].StartHour = result.ranges[i].EndHour
                /\ result.ranges[i].StartMinute = result.ranges[i].EndMinute)
            => ~result.inQuietTime

\* the answer was true for an instant after midnight in an overnight range
\* that is the only one
C37_Witness ==
    /\ lastOp = "IsTimeInQuietTime"
    /\ result.asked
    /\ result.inQuietTime
    /\ result.ranges = <<TimeRange(22, 0, 8, 0)>>
    /\ result.t = T0 + 8 * Hour - 1

-----------------------------------------------------------------------------
\* The lock discipline of the store: each goroutine calls public methods of
\* AlertStore; a method takes as.mu as its first statement, or none, runs
\* its body with the helpers it calls, and releases as.mu on return
\* (defer). as.mu is a sync.RWMutex: Lock waits for the writer and the
\* readers to leave, RLock waits while a writer holds or awaits the lock,
\* and Unlock admits the readers that wait.

PublicMethods ==
    {"UpdateEvents", "UpdateEventsWithConfig", "RemoveEvent",
     "GetAlertsForCurrentMinute", "MarkAlertStatus", "GetAllScheduledAlerts",
     "GetEvent", "AddManualAlert", "UpdateMutedStatusForQuietTime"}

\* the lock a method takes with a slip: UpdateEvents locks before it
\* delegates
LockKindWithDelegateLocked(method) ==
    IF method \in {"GetAlertsForCurrentMinute", "GetAllScheduledAlerts", "GetEvent"}
    THEN "read"
    ELSE "write"

\* the lock a method takes: as.mu.Lock(), as.mu.RLock(), or none
LockKind(method) ==
    IF method = "UpdateEvents" THEN "none"
    ELSE IF method \in {"GetAlertsForCurrentMinute", "GetAllScheduledAlerts", "GetEvent"}
    THEN "read"
    ELSE "write"

\* the public method that a method ends with a call of
Callee(method) ==
    IF method = "UpdateEvents" THEN "UpdateEventsWithConfig" ELSE "none"

\* goroutine g is at the first statement of a method that takes the lock
AwaitsLock(g, kind) ==
    /\ pc[g].at = "entry"
    /\ LockKind(pc[g].method) = kind

\* a caller invokes a public method
Invoke(g) ==
    /\ pc[g] = Idle
    /\ calls < MaxCalls
    /\ \E method \in PublicMethods :
        pc' = [pc EXCEPT ![g] = [at |-> "entry", method |-> method, outer |-> "none"]]
    /\ calls' = calls + 1
    /\ UNCHANGED <<front, now, events, alerts, alertsById, alertsByTime, result, lastOp, mu>>

\* a method that takes no lock goes on to its body
NoLock(g) ==
    /\ AwaitsLock(g, "none")
    /\ pc' = [pc EXCEPT ![g].at = "body"]
    /\ UNCHANGED <<front, now, events, alerts, alertsById, alertsByTime, result, lastOp,
                   calls, mu>>

\* as.mu.Lock() returns
Lock(g) ==
    /\ AwaitsLock(g, "write")
    /\ CanLock
    /\ mu' = [mu EXCEPT !.writer = g]
    /\ pc' = [pc EXCEPT ![g].at = "body"]
    /\ UNCHANGED <<front, now, events, alerts, alertsById, alertsByTime, result, lastOp,
                   calls>>

\* as.mu.RLock() returns: no writer holds the lock and none awaits it
RLock(g) ==
    /\ AwaitsLock(g, "read")
    /\ CanRLock
    /\ ~\E h \in Goroutines : AwaitsLock(h, "write")
    /\ mu' = [mu EXCEPT !.readers = @ \cup {g}]
    /\ pc' = [pc EXCEPT ![g].at = "body"]
    /\ UNCHANGED <<front, now, events, alerts, alertsById, alertsByTime, result, lastOp,
                   calls>>

\* the body of a method, with the helpers it calls, none of which locks;
\* UpdateEvents calls UpdateEventsWithConfig
Body(g) ==
    /\ pc[g].at = "body"
    /\ pc' = [pc EXCEPT ![g] =
                IF Callee(pc[g].method) = "none"
                THEN [pc[g] EXCEPT !.at = "return"]
                ELSE [at |-> "entry", method |-> Callee(pc[g].method),
                      outer |-> pc[g].method]]
    /\ UNCHANGED <<front, now, events, alerts, alertsById, alertsByTime, result, lastOp,
                   calls, mu>>

\* the goroutines that Unlock admits: those that wait in RLock
Admitted(g) ==
    IF LockKind(pc[g].method) = "write"
    THEN {h \in Goroutines : AwaitsLock(h, "read")}
    ELSE {}

\* a method returns: the deferred Unlock or RUnlock, then back in the
\* caller, which returns
Return(g) ==
    /\ pc[g].at = "return"
    /\ mu' = CASE LockKind(pc[g].method) = "write" ->
                    [writer |-> "none", readers |-> Admitted(g)]
               [] LockKind(pc[g].method) = "read" ->
                    [mu EXCEPT !.readers = @ \ {g}]
               [] OTHER -> mu
    /\ pc' = [h \in Goroutines |->
                IF h = g
                THEN IF pc[g].outer = "none" THEN Idle
                     ELSE [at |-> "return", method |-> pc[g].outer, outer |-> "none"]
                ELSE IF h \in Admitted(g) THEN [pc[h] EXCEPT !.at = "body"]
                ELSE pc[h]]
    /\ UNCHANGED <<front, now, events, alerts, alertsById, alertsByTime, result, lastOp,
                   calls>>

NextLocks ==
    \E g \in Goroutines :
        \/ Invoke(g)
        \/ NoLock(g)
        \/ Lock(g)
        \/ RLock(g)
        \/ Body(g)
        \/ Return(g)

\* a goroutine that can run does, and the runtime hands a lock that is
\* free again and again to each writer that waits for it; a reader waits
\* only for writers, whose Unlock admits it
SpecLocks ==
    /\ Init
    /\ [][NextLocks]_vars
    /\ \A g \in Goroutines :
        /\ WF_vars(NoLock(g) \/ RLock(g) \/ Body(g) \/ Return(g))
        /\ SF_vars(Lock(g))

\* goroutine g holds the lock in the way of kind
Holds(g, kind) ==
    CASE kind = "write" -> mu.writer = g
      [] kind = "read" -> g \in mu.readers
      [] OTHER -> FALSE

\* a call holds the lock of its method from the body to the return, only
\* that one, and holds none when it is about to take it
LockHeldOnce ==
    \A g \in Goroutines :
        /\ pc[g] = Idle => ~Holds(g, "write") /\ ~Holds(g, "read")
        /\ pc[g] # Idle =>
            LET kind == LockKind(pc[g].method)
            IN  /\ pc[g].at = "entry" => ~Holds(g, "write") /\ ~Holds(g, "read")
                /\ (pc[g].at \in {"body", "return"} /\ kind # "none") =>
                    /\ Holds(g, kind)
                    /\ \A other \in {"write", "read"} \ {kind} : ~Holds(g, other)

\* C38 (deadlock freedom): a call of a public method of the store takes the
\* store lock once, never while it holds it (UpdateEvents delegates without
\* locking, the helpers do not lock), and releases it when it returns; under
\* every interleaving of concurrent callers each invoked call returns.
C38_DeadlockFreedom ==
    /\ []LockHeldOnce
    /\ \A g \in Goroutines : (pc[g] # Idle) ~> (pc[g] = Idle)

\* a call waits for the lock that a writer holds while a reader waits too
C38_Witness ==
    \E g, h, k \in Goroutines :
        /\ Holds(g, "write")
        /\ h # g /\ AwaitsLock(h, "write")
        /\ AwaitsLock(k, "read")

-----------------------------------------------------------------------------
\* C39 (key injectivity): generateAlertID gives distinct keys to distinct
\* pairs of event id and offset, so two alerts that the store holds and that
\* differ in their event or their offset never have the same alertsById key
SameKey(s, r1, r2) == AlertKey(s, r1) = AlertKey(s, r2)

SamePair(s, r1, r2) ==
    /\ s.alerts[r1].EventID = s.alerts[r2].EventID
    /\ s.alerts[r1].AlertOffset = s.alerts[r2].AlertOffset

KeyInjective(s) ==
    \A r1, r2 \in Held(s) : SameKey(s, r1, r2) => SamePair(s, r1, r2)

C39_KeyInjectivity ==
    /\ KeyInjective(Store)
    /\ \A newEvents \in Batches, alertMinutes \in AlertMinutesPool, config \in ConfigPool :
            KeyInjective(UpdateEventsWithConfig(Store, newEvents, alertMinutes, config))

====
